---- MODULE Spec2Model ----
(***************************************************************************)
(* A model of the ROI report generator (src/app.py): the numeric           *)
(* extraction utility extract_currency_value, and the /generate request    *)
(* handler generate_pdf with its worker pool, cost parsing, aggregation    *)
(* and ROI card.                                                           *)
(*                                                                         *)
(* Python strings are sequences of one-character strings.  Python floats   *)
(* are exact rationals [n, d] in lowest terms (d > 0).                     *)
(***************************************************************************)
EXTENDS Integers, Sequences, FiniteSets, TLC

VARIABLES
    \* ---- one call of extract_currency_value
    text_value,     \* the argument: a Python value (None, str, int, float)
    ext_pc,         \* "call" before the call, "returned" after it
    ext_result,     \* the outcome of the call: a float, or an exception
    \* ---- one /generate request
    pc,             \* position of the request handler
    access_ok,      \* request.form['access_code'] == ACCESS_CODE
    prods,          \* request.form.getlist('products')
    form,           \* per product: the cost and term form fields
    futures,        \* the tasks submitted so far (task i is for prods[i]): their state
    results,        \* dict product -> data, in insertion order
    costs,          \* dict product -> {cost, term}
    roi_data,       \* dict product -> {investment, savings, components}
    tot_inv,
    tot_save,
    roi_pct,        \* the Python value handed to the ROI card
    roi_card,       \* the text of the ROI card
    http,           \* the response: 0 (none yet), 200, 403, 500
    error,          \* the exception that ended the request ("" when none)
    generator,      \* the answers the CFO generator call can give in this run
    client_forms,   \* the cost and term fields a client can submit in this run
    bench_forms,    \* the benchmark fields a client can submit in this run
    custom_profile, \* the benchmark fields of the form, as lines 406-414 keep them
    \* ---- one call of create_payback_chart
    investment,     \* the arguments
    annual_savings,
    chart_pc,       \* "idle", "call", "loop", "returned"
    current,        \* the running value of the loop
    cash_flow,      \* the list plotted
    \* ---- one call of get_benchmark_profile
    industry_input, \* the arguments: Python values
    revenue_input,
    bench_pc,       \* "idle", "call", "returned"
    bench_result,   \* the outcome of the call
    \* ---- one /research request
    research_pc,    \* "idle", "start", "scout", "profile", "done"
    code_presented, \* whether the request carries the valid access code
    tavily_key,     \* whether TAVILY_API_KEY is set
    context,        \* tavily_resp['context']: whether it holds text
    research_http,  \* the response: 0 (none yet), 200, 500
    external_calls, \* the calls made to external collaborators, in order
    \* ---- one call of process_single_product
    psp_pc,         \* "idle", "call", "triage", "cfo", "returned"
    product,        \* the argument prod: the product name
    beta_mode,      \* the argument beta_mode
    product_rules,  \* the formula template selected for the product
    psp_result,     \* the outcome of the call
    \* ---- the request threads of one worker process around plot_lock
    plot_lock,      \* the thread that holds plot_lock, 0 when it is free
    thread_pc,      \* per thread: "idle", "waiting", "figure", "plot", "save"
    chart_out,      \* per thread: how its last chart call ended: "", "png", "raised"
    \* ---- one run of the standalone script src/src/main.py
    main_pc,        \* "idle", "ai", "math", "merge", "returned"
    playbook,       \* the content of hammer_playbook.json
    ai_failed,      \* whether the AI step raised (lines 150-159)
    ai_data,        \* the parsed AI response, or the fallback data
    math_results,   \* what calculate_hammer_math returned
    final_data      \* what synthesize_report returned

extVars == <<text_value, ext_pc, ext_result>>
reqVars == <<pc, access_ok, prods, form, futures, results, costs,
             roi_data, tot_inv, tot_save, roi_pct, roi_card, http, error,
             generator, client_forms, bench_forms, custom_profile>>
chartVars == <<investment, annual_savings, chart_pc, current, cash_flow>>
benchVars == <<industry_input, revenue_input, bench_pc, bench_result>>
researchVars == <<research_pc, code_presented, tavily_key, context, research_http, external_calls>>
productVars == <<psp_pc, product, beta_mode, product_rules, psp_result>>
lockVars == <<plot_lock, thread_pc, chart_out>>
mainVars == <<main_pc, playbook, ai_failed, ai_data, math_results, final_data>>
moreVars == <<researchVars, productVars, lockVars, mainVars>>
callVars == <<extVars, chartVars, benchVars, moreVars>>
vars == <<text_value, ext_pc, ext_result, pc, access_ok, prods, form,
          futures, results, costs, roi_data, tot_inv, tot_save, roi_pct,
          roi_card, http, error, generator, client_forms, bench_forms, custom_profile,
          investment, annual_savings,
          chart_pc, current, cash_flow, industry_input, revenue_input,
          bench_pc, bench_result,
          research_pc, code_presented, tavily_key, context, research_http, external_calls,
          psp_pc, product, beta_mode, product_rules, psp_result,
          plot_lock, thread_pc, chart_out,
          main_pc, playbook, ai_failed, ai_data, math_results, final_data>>

(***************************************************************************)
(* Bounds of the model.                                                    *)
(***************************************************************************)
\* longest enumerated text argument of extract_currency_value
MaxLen == 3

(***************************************************************************)
(* Python floats as exact rationals.                                       *)
(***************************************************************************)
Abs(x) == IF x < 0 THEN -x ELSE x

RECURSIVE Gcd(_, _)
Gcd(a, b) == IF b = 0 THEN a ELSE Gcd(b, a % b)

Rat(n, d) ==
    LET g == Gcd(Abs(n), Abs(d))
        s == IF d < 0 THEN -1 ELSE 1
    IN  [n |-> (s * n) \div g, d |-> (s * d) \div g]

RInt(i) == [n |-> i, d |-> 1]
RAdd(a, b) == Rat(a.n * b.d + b.n * a.d, a.d * b.d)
RSub(a, b) == Rat(a.n * b.d - b.n * a.d, a.d * b.d)
RMul(a, b) == Rat(a.n * b.n, a.d * b.d)
RDiv(a, b) == Rat(a.n * b.d, a.d * b.n)      \* b # 0
RLt(a, b)  == a.n * b.d < b.n * a.d
RAbs(a)    == [n |-> Abs(a.n), d |-> a.d]

RECURSIVE Pow10(_)
Pow10(k) == IF k = 0 THEN 1 ELSE 10 * Pow10(k - 1)

(***************************************************************************)
(* Characters and strings.                                                 *)
(***************************************************************************)
DigitChars == <<"0", "1", "2", "3", "4", "5", "6", "7", "8", "9">>
UpperChars == <<"A", "B", "C", "D", "E", "F", "G", "H", "I", "J", "K", "L", "M",
                "N", "O", "P", "Q", "R", "S", "T", "U", "V", "W", "X", "Y", "Z">>
LowerChars == <<"a", "b", "c", "d", "e", "f", "g", "h", "i", "j", "k", "l", "m",
                "n", "o", "p", "q", "r", "s", "t", "u", "v", "w", "x", "y", "z">>

IsDigit(c) == \E i \in 1..10 : DigitChars[i] = c
DigitVal(c) == (CHOOSE i \in 1..10 : DigitChars[i] = c) - 1
IsSign(c) == c \in {"-", "+"}
IsSpace(c) == c \in {" "}

\* str.lower() on one character
LowerChar(c) ==
    IF \E i \in 1..26 : UpperChars[i] = c
    THEN LowerChars[CHOOSE i \in 1..26 : UpperChars[i] = c]
    ELSE c

\* str.strip(): leading and trailing whitespace removed
RECURSIVE LStrip(_)
LStrip(s) == IF s # <<>> /\ IsSpace(Head(s)) THEN LStrip(Tail(s)) ELSE s
RECURSIVE RStrip(_)
RStrip(s) ==
    IF s # <<>> /\ IsSpace(s[Len(s)]) THEN RStrip(SubSeq(s, 1, Len(s) - 1)) ELSE s
Strip(s) == RStrip(LStrip(s))

\* str.replace(ch, ''): every occurrence of ch removed
Remove(s, ch) == SelectSeq(s, LAMBDA c : c # ch)

\* str.lower()
Lower(s) == [i \in 1..Len(s) |-> LowerChar(s[i])]

\* needle in hay
Contains(hay, needle) ==
    \E i \in 0..(Len(hay) - Len(needle)) : SubSeq(hay, i + 1, i + Len(needle)) = needle

\* str.lower().endswith(ch), ch a lower-case character
LowerEndsWith(s, ch) == s # <<>> /\ LowerChar(s[Len(s)]) = ch

\* s[:-1]
DropLast(s) == IF s = <<>> THEN s ELSE SubSeq(s, 1, Len(s) - 1)

\* the end of the run of digits of s that starts at i (i - 1 when there is none)
RECURSIVE DigitRunEnd(_, _)
DigitRunEnd(s, i) ==
    IF i <= Len(s) /\ IsDigit(s[i]) THEN DigitRunEnd(s, i + 1) ELSE i - 1

\* the value of a string of digits, most significant first
RECURSIVE DigitsVal(_)
DigitsVal(s) ==
    IF s = <<>> THEN 0 ELSE 10 * DigitsVal(SubSeq(s, 1, Len(s) - 1)) + DigitVal(s[Len(s)])

\* str(n) for an int n
RECURSIVE NatStr(_)
NatStr(n) ==
    IF n < 10 THEN <<DigitChars[n + 1]>> ELSE NatStr(n \div 10) \o <<DigitChars[(n % 10) + 1]>>
IntStr(n) == IF n < 0 THEN <<"-">> \o NatStr(-n) ELSE NatStr(n)

\* str(x) for a float x given in tenths (repr: integer part, ".", one digit)
FloatStr(t) ==
    (IF t < 0 THEN <<"-">> ELSE <<>>)
        \o NatStr(Abs(t) \div 10) \o <<".">> \o <<DigitChars[(Abs(t) % 10) + 1]>>

(***************************************************************************)
(* Python values: None, str, int, float (a float is given in tenths).      *)
(***************************************************************************)
PyNone == [kind |-> "none", s |-> <<>>, n |-> 0]
PyStr(s) == [kind |-> "str", s |-> s, n |-> 0]
PyInt(i) == [kind |-> "int", s |-> <<>>, n |-> i]
PyFloat(t) == [kind |-> "float", s |-> <<>>, n |-> t]

\* bool(v)
Truthy(v) ==
    CASE v.kind = "none" -> FALSE
      [] v.kind = "str" -> v.s # <<>>
      [] OTHER -> v.n # 0

\* str(v)
StrOf(v) ==
    CASE v.kind = "none" -> <<"N", "o", "n", "e">>
      [] v.kind = "str" -> v.s
      [] v.kind = "int" -> IntStr(v.n)
      [] OTHER -> FloatStr(v.n)

\* the number a numeric Python value stands for
NumOf(v) == IF v.kind = "int" THEN RInt(v.n) ELSE Rat(v.n, 10)

(***************************************************************************)
(* float(s) for a string s: surrounding whitespace is dropped; an optional *)
(* sign, digits, an optional "." and digits, with at least one digit.      *)
(* Anything else is a ValueError (ok = FALSE).  Exponents, underscores,    *)
(* "inf" and "nan" are outside the alphabets used here.                    *)
(***************************************************************************)
\* the number read from the stripped text t, whose digits start at p and whose
\* integer part ends at q
ParseNumber(t, p, q) ==
    LET hasDot == q + 1 <= Len(t) /\ t[q + 1] = "."
        r == IF hasDot THEN DigitRunEnd(t, q + 2) ELSE q
        intDigits == SubSeq(t, p, q)
        fracDigits == IF hasDot THEN SubSeq(t, q + 2, r) ELSE <<>>
        good == r = Len(t) /\ Len(intDigits) + Len(fracDigits) > 0
        mag == Rat(DigitsVal(intDigits \o fracDigits), Pow10(Len(fracDigits)))
    IN  IF ~good THEN [ok |-> FALSE, v |-> RInt(0)]
        ELSE [ok |-> TRUE,
              v |-> IF t[1] = "-" THEN [n |-> -mag.n, d |-> mag.d] ELSE mag]

ParseSigned(t, p) == ParseNumber(t, p, DigitRunEnd(t, p))

ParseStripped(t) == ParseSigned(t, IF t # <<>> /\ IsSign(t[1]) THEN 2 ELSE 1)

ParseFloat(s) == ParseStripped(Strip(s))

(***************************************************************************)
(* re.findall(r"[-+]?\d*\.\d+|\d+", s)                                     *)
(***************************************************************************)
\* the index where a match starting at i ends, 0 when none starts at i.
\* First alternative: optional sign, digits, ".", at least one digit (the
\* greedy \d* can only stop at the "."); second alternative: a run of digits.
MatchEnd(s, i) ==
    LET p == IF IsSign(s[i]) THEN i + 1 ELSE i
        q == DigitRunEnd(s, p) + 1
        alt1 == q + 1 <= Len(s) /\ s[q] = "." /\ IsDigit(s[q + 1])
    IN  IF alt1 THEN DigitRunEnd(s, q + 1)
        ELSE IF IsDigit(s[i]) THEN DigitRunEnd(s, i)
        ELSE 0

\* the non-overlapping matches, scanning from i to the right
RECURSIVE FindAllFrom(_, _)
FindAllFrom(s, i) ==
    IF i > Len(s) THEN <<>>
    ELSE LET e == MatchEnd(s, i)
         IN  IF e = 0 THEN FindAllFrom(s, i + 1)
             ELSE <<SubSeq(s, i, e)>> \o FindAllFrom(s, e + 1)

FindAll(s) == FindAllFrom(s, 1)

\* max(xs) of a non-empty list of floats
RECURSIVE MaxOf(_)
MaxOf(xs) ==
    IF Len(xs) = 1 THEN xs[1]
    ELSE LET m == MaxOf(Tail(xs)) IN IF RLt(xs[1], m) THEN m ELSE xs[1]

(***************************************************************************)
(* extract_currency_value                                                  *)
(***************************************************************************)
\* the outcome of a call: a float v, or an exception
Returned(v) == [raised |-> FALSE, v |-> v]
Raises == [raised |-> TRUE, v |-> RInt(0)]

\* str(text_value).strip().replace('$', '').replace(',', '')
CleanText(tv) == Remove(Remove(Strip(StrOf(tv)), "$"), ",")

\* the suffix multiplier: 1000 for a trailing k, 1000000 for a trailing m
SuffixMultiplier_Mutant(clean) ==
    IF clean # <<>> /\ clean[Len(clean)] = "k" THEN 1000
    ELSE IF clean # <<>> /\ clean[Len(clean)] = "m" THEN 1000000
    ELSE 1

SuffixMultiplier(clean) ==
    IF LowerEndsWith(clean, "k") THEN 1000
    ELSE IF LowerEndsWith(clean, "m") THEN 1000000
    ELSE 1

\* clean_text after the suffix character is removed
SuffixRemoved(clean) ==
    IF LowerEndsWith(clean, "k") \/ LowerEndsWith(clean, "m")
    THEN DropLast(clean) ELSE clean

\* the try block: findall, float of every match, max, times the multiplier;
\* any exception inside it gives 0.0
ParseMatches_Mutant(clean_text, multiplier) ==
    LET matches == FindAll(clean_text)
        floats == [i \in 1..Len(matches) |-> ParseFloat(matches[i])]
    IN  IF matches = <<>> THEN Raises
        ELSE Returned(RMul(MaxOf([i \in 1..Len(matches) |-> floats[i].v]),
                           RInt(multiplier)))

ParseMatches(clean_text, multiplier) ==
    LET matches == FindAll(clean_text)
        floats == [i \in 1..Len(matches) |-> ParseFloat(matches[i])]
    IN  IF \E i \in 1..Len(matches) : ~floats[i].ok THEN Returned(RInt(0))
        ELSE IF matches # <<>>
        THEN Returned(RMul(MaxOf([i \in 1..Len(matches) |-> floats[i].v]),
                           RInt(multiplier)))
        ELSE Returned(RInt(0))

extract_currency_value(tv) ==
    IF ~Truthy(tv) THEN Returned(RInt(0))
    ELSE ParseMatches(SuffixRemoved(CleanText(tv)), SuffixMultiplier(CleanText(tv)))

(***************************************************************************)
(* The arguments extract_currency_value is called with.                    *)
(***************************************************************************)
Alphabet == {"0", "1", "5", "-", "+", ".", ",", "$", "k", "K", "m", "M", " ", "x"}

\* every string over Alphabet of at most k characters
StringsUpTo(k) == UNION {[1..n -> Alphabet] : n \in 0..k}

\* the example of the specification: a $150k term inside a longer phrase
Phrase150k ==
    <<"1", "5", " ", "I", "n", "c", "i", "d", "e", "n", "t", "s", " ", "*", " ",
      "$", "1", "5", "0", "k", " ", "c", "o", "s", "t", " ", "*", " ",
      "4", "5", "%", " ", "a", "v", "o", "i", "d", "e", "d">>

SampleTexts ==
    { <<"$", "1", "0", "5", ",", "0", "0", "0">>,
      <<"$", "1", "0", "5", "k">>,
      <<"$", "1", "0", "5", "K">>,
      <<"$", "2", "4", ",", "0", "0", "0">>,
      <<"$", "1", ".", "5", "m">>,
      <<"1", ",", "5", "0", "0", ".", "5">>,
      <<"$", "2", ",", "0", "0", "0", "M">>,
      <<"-", "7", ".", "5", " ", "2">>,
      <<"1", "-", "5", ".", "5">>,
      <<"3", " ", "x", " ", "$", "2", "0", "k">>,
      <<"1", ".", "5", ".", "5">>,
      <<"-", "1", "5", "0">>,
      Phrase150k }

SampleInts == {-42000, -5, 0, 5, 42000}
SampleTenths == {-55, -5, 0, 5, 50, 55, 420005}

ExtractInputs ==
    {PyNone}
        \cup {PyStr(s) : s \in StringsUpTo(MaxLen) \cup SampleTexts}
        \cup {PyInt(i) : i \in SampleInts}
        \cup {PyFloat(x) : x \in SampleTenths}

(***************************************************************************)
(* One call of extract_currency_value on one argument.                     *)
(***************************************************************************)
RequestIdle ==
    /\ pc = "idle"
    /\ access_ok = FALSE
    /\ prods = <<>>
    /\ form = <<>>
    /\ futures = <<>>
    /\ results = <<>>
    /\ costs = <<>>
    /\ roi_data = <<>>
    /\ tot_inv = RInt(0)
    /\ tot_save = RInt(0)
    /\ roi_pct = [kind |-> "unset", v |-> RInt(0)]
    /\ roi_card = <<>>
    /\ http = 0
    /\ error = ""
    /\ generator = {}
    /\ client_forms = {}
    /\ bench_forms = {}
    /\ custom_profile = <<>>

\* no call of create_payback_chart is modelled
ChartIdle ==
    /\ investment = RInt(0)
    /\ annual_savings = RInt(0)
    /\ chart_pc = "idle"
    /\ current = RInt(0)
    /\ cash_flow = <<>>

\* no call of get_benchmark_profile is modelled
BenchIdle ==
    /\ industry_input = PyNone
    /\ revenue_input = PyNone
    /\ bench_pc = "idle"
    /\ bench_result = <<>>

ResearchIdle ==
    /\ research_pc = "idle"
    /\ code_presented = FALSE
    /\ tavily_key = FALSE
    /\ context = FALSE
    /\ research_http = 0
    /\ external_calls = <<>>

ProductIdle ==
    /\ psp_pc = "idle"
    /\ product = <<>>
    /\ beta_mode = FALSE
    /\ product_rules = <<>>
    /\ psp_result = <<>>

LockIdle ==
    /\ plot_lock = 0
    /\ thread_pc = <<>>
    /\ chart_out = <<>>

MainIdle ==
    /\ main_pc = "idle"
    /\ playbook = <<>>
    /\ ai_failed = FALSE
    /\ ai_data = <<>>
    /\ math_results = <<>>
    /\ final_data = <<>>

MoreIdle ==
    /\ ResearchIdle
    /\ ProductIdle
    /\ LockIdle
    /\ MainIdle

InitExtract ==
    /\ text_value \in ExtractInputs
    /\ ext_pc = "call"
    /\ ext_result = Returned(RInt(0))
    /\ RequestIdle
    /\ ChartIdle
    /\ BenchIdle
    /\ MoreIdle

CallExtract ==
    /\ ext_pc = "call"
    /\ ext_result' = extract_currency_value(text_value)
    /\ ext_pc' = "returned"
    /\ UNCHANGED <<text_value, reqVars, chartVars, benchVars, moreVars>>

NextExtract == CallExtract

SpecExtract == InitExtract /\ [][NextExtract]_vars

(***************************************************************************)
(* The /generate request: generate_pdf.                                    *)
(***************************************************************************)
\* longest submitted product list
MaxProds == 2

\* max_workers of the ThreadPoolExecutor
MaxWorkers == 3

Products == {"Hammer QA", "Hammer Edge"}

ProductLists == UNION {[1..n -> Products] : n \in 0..MaxProds}

SeqRange(s) == {s[i] : i \in 1..Len(s)}

\* a form field: absent, or present with its text
Absent == [present |-> FALSE, s |-> <<>>]
Field(s) == [present |-> TRUE, s |-> s]

CostFields ==
    { Absent,
      Field(<<"1", "0", "0", "0">>),
      Field(<<"-", "1", "0", "0", "0">>),
      Field(<<"a", "b", "c">>) }

\* the term field with the custom term field that goes with it
TermFields ==
    { [term |-> Absent, term_custom |-> Absent],
      [term |-> Field(<<"2", "4">>), term_custom |-> Absent],
      [term |-> Field(<<"0">>), term_custom |-> Absent],
      [term |-> Field(<<"o", "t", "h", "e", "r">>), term_custom |-> Field(<<"6">>)] }

ProductForms ==
    {[cost |-> c, term |-> t.term, term_custom |-> t.term_custom] :
        c \in CostFields, t \in TermFields}

\* a JSON value returned for a product.  kind: "object" or "array" (len its
\* length); of an object: other, its keys besides 'roi_components'; has_rc,
\* whether it has the key 'roi_components'; rc_kind, whether the value under
\* it is a "list" or a "number"; roi_components, the items of the list.
\* An item: obj, whether it is an object; has_sv, whether it has the key
\* 'savings_value'; savings_value, the value under it.
EmptyDict ==
    [kind |-> "object", len |-> 0, other |-> {}, has_rc |-> FALSE,
     rc_kind |-> "list", roi_components |-> <<>>]
Component(v) == [obj |-> TRUE, has_sv |-> TRUE, savings_value |-> v]
NoValueComponent == [obj |-> TRUE, has_sv |-> FALSE, savings_value |-> PyNone]
Analysis(comps) ==
    [kind |-> "object", len |-> 0, other |-> {"impact", "bullets"}, has_rc |-> TRUE,
     rc_kind |-> "list", roi_components |-> comps]

\* what the CFO generator call returns: None (a failed call), or an analysis
GenResponses ==
    { [none |-> TRUE, data |-> EmptyDict],
      [none |-> FALSE,
       data |-> Analysis(<<Component(PyInt(24000)), Component(PyFloat(15005))>>)],
      [none |-> FALSE,
       data |-> Analysis(<<Component(PyStr(<<"$", "2", "4", ",", "0", "0", "0">>)),
                           Component(PyStr(<<"$", "1", ".", "5", "k">>)),
                           NoValueComponent>>)] }

\* ---- src/knowledge_base.py: the names the module defines, and the 'hard_roi'
\* list of every entry of its PRODUCT_DATA (no entry has 'roi_components')
KnowledgeBaseNames == {"PRODUCT_DATA", "ROI_ARCHETYPES"}

KnowledgeBaseEntry(hard_roi) ==
    [kind |-> "object", len |-> 0,
     other |-> {"tagline", "hard_roi", "soft_roi", "math_variables"},
     has_rc |-> FALSE, rc_kind |-> "list", roi_components |-> <<>>,
     hard_roi |-> hard_roi]

KnowledgeBaseProductData ==
    [p \in {"Hammer VoiceExplorer", "Hammer Performance", "Hammer QA",
            "Ativa Enterprise", "Hammer VoiceWatch", "Hammer Edge"} |->
        KnowledgeBaseEntry(
            CASE p = "Hammer VoiceExplorer" ->
                    <<"Reduces Test Automation Development time by 80%.",
                      "Eliminates manual documentation hours (Visio/Excel).",
                      "Prevents migration delays caused by 'discovery' phases.">>
              [] p = "Hammer Performance" ->
                    <<"Prevents costly P1/P2 incidents post-change.",
                      "Reduces 'All-Hands' troubleshooting overtime.",
                      "Minimizes rollback costs by catching defects in staging.">>
              [] p = "Hammer QA" ->
                    <<"Replaces manual regression testing labor.",
                      "Runs 20+ concurrent tests in parallel.",
                      "Reduces 'Defect Escape Ratio' to Production.">>
              [] p = "Ativa Enterprise" ->
                    <<"Recovers hard dollars via SLA credit enforcement.",
                      "Reduces Mean Time to Repair (MTTR).",
                      "Right-sizes SBC licenses and SIP trunks.">>
              [] p = "Hammer VoiceWatch" ->
                    <<"Revenue Protection: Detects outages early.",
                      "Eliminates manual 'sweeps' of TFNs.",
                      "Identifies 90-95% of errors pre-customer impact.">>
              [] OTHER ->
                    <<"Hardware Refresh Optimization.",
                      "Tier 1 Ticket Deflection.",
                      "Reduces shrinkage/downtime for remote agents.">>)]

\* ---- src/app.py lines 20-24: the import names PRODUCT_MANUALS, which the
\* module does not define; the ImportError leaves PRODUCT_DATA = {}
ImportedNames == {"PRODUCT_DATA", "PRODUCT_MANUALS"}

PRODUCT_DATA ==
    IF ImportedNames \subseteq KnowledgeBaseNames THEN KnowledgeBaseProductData
    ELSE <<>>

\* PRODUCT_DATA.get(prod, {})
FallbackData(prod) ==
    IF prod \in DOMAIN PRODUCT_DATA THEN PRODUCT_DATA[prod] ELSE EmptyDict

\* bool(v) of a JSON value
JsonTruthy(d) == IF d.kind = "array" THEN d.len > 0 ELSE d.other # {} \/ d.has_rc

\* bool(cfo_result): None, the empty object and the empty array are falsy
ResponseTruthy(r) == ~r.none /\ JsonTruthy(r.data)

\* the data process_single_product returns with prod
process_single_product(prod, cfo_result) ==
    IF ResponseTruthy(cfo_result) THEN cfo_result.data ELSE FallbackData(prod)

\* ---- a dict in insertion order: a sequence of [k, v]
DictHas(d, k) == \E i \in 1..Len(d) : d[i].k = k
DictGet(d, k) == d[CHOOSE i \in 1..Len(d) : d[i].k = k].v
DictSet(d, k, v) ==
    IF DictHas(d, k)
    THEN [i \in 1..Len(d) |-> IF d[i].k = k THEN [k |-> k, v |-> v] ELSE d[i]]
    ELSE Append(d, [k |-> k, v |-> v])
DictKeys(d) == {d[i].k : i \in 1..Len(d)}

\* ---- lines 434-441: the cost and term of one product
FormCost(f) ==
    LET c == IF f.cost.present THEN ParseFloat(f.cost.s) ELSE [ok |-> TRUE, v |-> RInt(0)]
        t_str == IF f.term.present THEN f.term.s ELSE <<"1", "2">>
        t == IF t_str = <<"o", "t", "h", "e", "r">>
             THEN IF f.term_custom.present THEN ParseFloat(f.term_custom.s)
                  ELSE [ok |-> TRUE, v |-> RInt(12)]
             ELSE ParseFloat(t_str)
    IN  IF c.ok /\ t.ok THEN [cost |-> c.v, term |-> t.v]
        ELSE [cost |-> RInt(0), term |-> RInt(12)]

\* ---- lines 444-448: the financials of one product
\* c.get('savings_value', 0)
SavingsValue_Mutant(c) == PyInt(0)

SavingsValue(c) == IF c.has_sv THEN c.savings_value ELSE PyInt(0)

\* data.get('roi_components', [])
ComponentsOf(data) == IF data.has_rc THEN data.roi_components ELSE <<>>

\* sum([...]) of floats
RECURSIVE SumOf(_)
SumOf(xs) == IF xs = <<>> THEN RInt(0) ELSE RAdd(xs[1], SumOf(Tail(xs)))

\* the extracted amount of every component
ExtractAll(comps) ==
    [i \in 1..Len(comps) |-> extract_currency_value(SavingsValue(comps[i]))]

\* the financials from the components comps, their extracted amounts ex and
\* the product's cost and term c
Financials_Mutant(comps, ex, c) ==
    LET p_save == SumOf([i \in 1..Len(comps) |-> ex[i].v])
    IN  [raised |-> \E i \in 1..Len(comps) : ex[i].raised,
         investment |-> RMul(c.cost, c.term),
         savings |-> p_save,
         components |-> comps]

Financials_FloorYears(comps, ex, c) ==
    LET p_save == SumOf([i \in 1..Len(comps) |-> ex[i].v])
        term_years == RInt(c.term.n \div (12 * c.term.d))
    IN  [raised |-> \E i \in 1..Len(comps) : ex[i].raised,
         investment |-> RMul(c.cost, c.term),
         savings |-> RMul(p_save, term_years),
         components |-> comps]

Financials(comps, ex, c) ==
    LET p_save == SumOf([i \in 1..Len(comps) |-> ex[i].v])
        term_years == RDiv(c.term, RInt(12))
    IN  [raised |-> \E i \in 1..Len(comps) : ex[i].raised,
         investment |-> RMul(c.cost, c.term),
         savings |-> RMul(p_save, term_years),
         components |-> comps]

\* lines 444-445 on data that is not an object of driver records:
\* data.get on an array, iterating a number, c.get on an item that is no object
DataError(data) ==
    IF data.kind # "object" THEN "AttributeError"
    ELSE IF ~data.has_rc THEN ""
    ELSE IF data.rc_kind # "list" THEN "TypeError"
    ELSE IF \E i \in 1..Len(data.roi_components) : ~data.roi_components[i].obj
         THEN "AttributeError"
    ELSE ""

ProductFinancials(data, c) ==
    [Financials(ComponentsOf(data), ExtractAll(ComponentsOf(data)), c)
        EXCEPT !.raised = @ \/ DataError(data) # ""]

\* the exception that ends the loop over results.items()
RECURSIVE AggregateError(_)
AggregateError(res) ==
    IF res = <<>> THEN "Exception"
    ELSE IF DataError(res[1].v) # "" THEN DataError(res[1].v)
    ELSE AggregateError(Tail(res))

\* tot_inv += inv, tot_save += term_save
Accumulate_Mutant(tot, x) == x

Accumulate(tot, x) == RAdd(tot, x)

\* line 446-451: the totals and roi_data with product p's financials f added
AddProduct(acc, p, f) ==
    [raised |-> acc.raised \/ f.raised,
     tot_inv |-> Accumulate(acc.tot_inv, f.investment),
     tot_save |-> Accumulate(acc.tot_save, f.savings),
     roi_data |-> DictSet(acc.roi_data, p,
                          [investment |-> f.investment, savings |-> f.savings,
                           components |-> f.components])]

\* ---- lines 443-451: the loop over results.items(), from entry i on
RECURSIVE AggregateFrom_Mutant(_, _, _, _)
AggregateFrom_Mutant(res, cst, i, acc) ==
    IF i > Len(res) \/ res[i].v = EmptyDict THEN acc
    ELSE AggregateFrom_Mutant(res, cst, i + 1,
             AddProduct(acc, res[i].k, ProductFinancials(res[i].v, cst[res[i].k])))

RECURSIVE AggregateFrom(_, _, _, _)
AggregateFrom(res, cst, i, acc) ==
    IF i > Len(res) THEN acc
    ELSE AggregateFrom(res, cst, i + 1,
             AddProduct(acc, res[i].k, ProductFinancials(res[i].v, cst[res[i].k])))

\* lines 429-432: before the loop
NoTotals ==
    [raised |-> FALSE, tot_inv |-> RInt(0), tot_save |-> RInt(0), roi_data |-> <<>>]

\* lines 434-441 with the try around the whole loop: one field that float()
\* rejects resets every product
ParseCosts_Mutant(ps, frm) ==
    IF \E q \in SeqRange(ps) :
          \/ frm[q].cost.present /\ ~ParseFloat(frm[q].cost.s).ok
          \/ frm[q].term.present /\ frm[q].term.s # <<"o", "t", "h", "e", "r">>
                /\ ~ParseFloat(frm[q].term.s).ok
    THEN [p \in SeqRange(ps) |-> [cost |-> RInt(0), term |-> RInt(12)]]
    ELSE [p \in SeqRange(ps) |-> FormCost(frm[p])]

\* lines 434-441: costs, one entry per product of prods
ParseCosts(ps, frm) == [p \in SeqRange(ps) |-> FormCost(frm[p])]

\* ---- line 478: roi_pct; a / b raises ZeroDivisionError when b is 0
TrueDiv(a, b) ==
    IF b.n = 0 THEN [raised |-> TRUE, v |-> RInt(0)]
    ELSE [raised |-> FALSE, v |-> RDiv(a, b)]

\* ---- line 478 in binary floating point.  The operands are doubles, the
\* quotient is rounded to 53 significant bits and so is its product with 100.
\* The model keeps the real value of the expression; the double differs from
\* it by at most one unit in the last place, which the card shows only when
\* the real value lies halfway between two integers.  For a real product
\* that is itself a double, FloatSide tells on which side of it the magnitude
\* of the computed double lies (0 when they are equal).
RECURSIVE IsPow2(_)
IsPow2(d) == d = 1 \/ (d > 1 /\ d % 2 = 0 /\ IsPow2(d \div 2))

\* the a with 2^a <= n/d < 2^(a+1), for n, d > 0
RECURSIVE Log2(_, _)
Log2(n, d) ==
    IF n < d THEN Log2(2 * n, d) - 1
    ELSE IF n >= 2 * d THEN Log2(n, 2 * d) + 1
    ELSE 0

\* (r * 2^k) mod d
RECURSIVE ShiftMod(_, _, _)
ShiftMod(r, k, d) == IF k = 0 THEN r % d ELSE ShiftMod((2 * r) % d, k - 1, d)

RECURSIVE Pow2(_)
Pow2(k) == IF k = 0 THEN 1 ELSE 2 * Pow2(k - 1)

\* rem is (n * 2^(52-a)) mod d: the quotient's 53-bit significand is rounded
\* up when rem is more than half of d, and the error of the quotient, scaled
\* by 100, moves the product off its real value when it exceeds half the
\* spacing of the doubles on that side
SideOf(n, d, a, e, rem) ==
    LET up == 2 * rem > d
        mag == IF up THEN d - rem ELSE rem
        onPow2 == IF e >= 0 THEN 100 * n = Pow2(e) * d ELSE 100 * n * Pow2(-e) = d
        k == e - a - 1 - (IF ~up /\ onPow2 THEN 1 ELSE 0)
    IN  IF 100 * mag > d * Pow2(k) THEN (IF up THEN 1 ELSE -1) ELSE 0

FloatSide(n, d) ==
    IF n = 0 \/ IsPow2(d) THEN 0
    ELSE SideOf(n, d, Log2(n, d), Log2(100 * n, d),
                ShiftMod(n % d, 52 - Log2(n, d), d))

RoiPct_Mutant(save, inv) ==
    IF ~RLt(inv, RInt(0))
    THEN LET q == TrueDiv(RSub(save, inv), inv)
         IN  [raised |-> q.raised, kind |-> "float", v |-> RMul(q.v, RInt(100)),
              side |-> FloatSide(Abs(q.v.n), q.v.d)]
    ELSE [raised |-> FALSE, kind |-> "int", v |-> RInt(0), side |-> 0]

RoiPct(save, inv) ==
    IF RLt(RInt(0), inv)
    THEN LET q == TrueDiv(RSub(save, inv), inv)
         IN  [raised |-> q.raised, kind |-> "float", v |-> RMul(q.v, RInt(100)),
              side |-> FloatSide(Abs(q.v.n), q.v.d)]
    ELSE [raised |-> FALSE, kind |-> "int", v |-> RInt(0), side |-> 0]

\* ---- line 479: f"{roi_pct:.0f}%", rounding half to even; side is where
\* the double lies when the real value x is halfway
FormatPct(x, side) ==
    LET a == Abs(x.n)
        q == a \div x.d
        r == a % x.d
        rounded == IF 2 * r > x.d
                      \/ (2 * r = x.d /\ (side = 1 \/ (side = 0 /\ q % 2 = 1)))
                   THEN q + 1 ELSE q
    IN  (IF x.n < 0 THEN <<"-">> ELSE <<>>) \o NatStr(rounded) \o <<"%">>

\* ---- line 222: f"${val:,.0f}" of a component's raw savings_value raises
\* for a str (ValueError) and for None (TypeError)
RowError(c) ==
    LET val == SavingsValue(c)
    IN  CASE val.kind = "str" -> "ValueError"
          [] val.kind = "none" -> "TypeError"
          [] OTHER -> ""

\* the first exception of draw_financial_table over the components
RECURSIVE TableError(_)
TableError(comps) ==
    IF comps = <<>> THEN ""
    ELSE IF RowError(comps[1]) # "" THEN RowError(comps[1])
    ELSE TableError(Tail(comps))

\* lines 485-508: the first exception of the product pages, from prods[i] on
RECURSIVE PagesError(_, _, _)
PagesError(ps, res, i) ==
    IF i > Len(ps) THEN ""
    ELSE LET d == IF DictHas(res, ps[i]) THEN DictGet(res, ps[i]) ELSE EmptyDict
             e == IF d.has_rc THEN TableError(d.roi_components) ELSE ""
         IN  IF e # "" THEN e ELSE PagesError(ps, res, i + 1)

\* ---- lines 406-414 and 523-528: the benchmark fields of the form.  A field
\* 'bench_<category>_<metric>' is given by its category, metric and text.
AgentHourlyRate == <<"a", "g", "e", "n", "t", "_", "h", "o", "u", "r", "l", "y", "_", "r", "a", "t", "e">>
AnnualCallVolume == <<"a", "n", "n", "u", "a", "l", "_", "c", "a", "l", "l", "_", "v", "o", "l", "u", "m", "e">>

BenchField(category, metric, val) == [category |-> category, metric |-> metric, val |-> val]

\* the benchmark fields a form can carry: none, a rate or a volume as a number
\* or as other text, and a field of a category the profile does not have
BenchForms ==
    { <<>>,
      <<BenchField("ops", AgentHourlyRate, <<"8", "5">>)>>,
      <<BenchField("ops", AgentHourlyRate, <<"a", "b", "c">>)>>,
      <<BenchField("ops", AnnualCallVolume, <<"a", "b", "c">>)>>,
      <<BenchField("misc", AgentHourlyRate, <<"a", "b", "c">>)>> }

\* a form without benchmark fields
NoBenchForms == { <<>> }

\* lines 412-414: float(val), or val itself when float() rejects it
ProfileValue(val) ==
    LET f == ParseFloat(val)
    IN  IF f.ok THEN [kind |-> "float", s |-> val, v |-> f.v]
        ELSE [kind |-> "str", s |-> val, v |-> RInt(0)]

\* lines 406-414: the entries kept, for the categories of custom_profile
ParseProfile(fields) ==
    LET kept == SelectSeq(fields, LAMBDA f : f.category \in {"ops", "dev", "incidents", "cx"})
    IN  [i \in 1..Len(kept) |->
            [category |-> kept[i].category, metric |-> kept[i].metric,
             value |-> ProfileValue(kept[i].val)]]

\* line 526: f"${v:,.2f}" when the metric's name has "rate" or "cost" in it
\* (ValueError for a str), str(v) otherwise
EntryError(e) ==
    IF (Contains(e.metric, <<"r", "a", "t", "e">>) \/ Contains(e.metric, <<"c", "o", "s", "t">>))
          /\ e.value.kind = "str"
    THEN "ValueError" ELSE ""

\* lines 523-528: the first exception of the appendix rows
RECURSIVE AppendixError(_)
AppendixError(profile) ==
    IF profile = <<>> THEN ""
    ELSE IF EntryError(profile[1]) # "" THEN EntryError(profile[1])
    ELSE AppendixError(Tail(profile))

(***************************************************************************)
(* The state machine of one /generate request.                             *)
(***************************************************************************)
ExtractIdle ==
    /\ text_value = PyNone
    /\ ext_pc = "idle"
    /\ ext_result = Returned(RInt(0))

\* the start of a request whose generator can give the answers gen and whose
\* client can submit the product forms in forms and the benchmark fields in
\* benches
InitRequestOf(gen, forms, benches) ==
    /\ ExtractIdle
    /\ ChartIdle
    /\ BenchIdle
    /\ MoreIdle
    /\ generator = gen
    /\ client_forms = forms
    /\ bench_forms = benches
    /\ custom_profile = <<>>
    /\ pc = "start"
    /\ access_ok \in BOOLEAN
    /\ prods \in ProductLists
    /\ form = <<>>
    /\ futures = <<>>
    /\ results = <<>>
    /\ costs = <<>>
    /\ roi_data = <<>>
    /\ tot_inv = RInt(0)
    /\ tot_save = RInt(0)
    /\ roi_pct = [kind |-> "unset", v |-> RInt(0)]
    /\ roi_card = <<>>
    /\ http = 0
    /\ error = ""

InitRequestWith(gen, forms) == InitRequestOf(gen, forms, BenchForms)

InitRequest(gen) == InitRequestWith(gen, ProductForms)

Init == InitRequestOf(GenResponses, ProductForms, NoBenchForms)

\* line 398: a wrong access code is answered 403
Reject ==
    /\ pc = "start"
    /\ ~access_ok
    /\ http' = 403
    /\ pc' = "done"
    /\ UNCHANGED <<callVars, generator, client_forms, bench_forms, custom_profile, access_ok, prods, form, futures, results, costs,
                   roi_data, tot_inv, tot_save, roi_pct, roi_card, error>>

\* line 398 left out: the pool starts whatever the access code is
Submit_Mutant ==
    /\ pc = "start"
    /\ \E b \in bench_forms : custom_profile' = ParseProfile(b)
    /\ futures' = <<>>
    /\ pc' = IF prods = <<>> THEN "pool" ELSE "submit"
    /\ UNCHANGED <<callVars, generator, client_forms, bench_forms, access_ok, prods, form, results, costs, roi_data,
                   tot_inv, tot_save, roi_pct, roi_card, http, error>>

\* lines 400-417: the form is read, its bench_ fields parsed into
\* custom_profile (lines 406-414) and the pool opened; with no product the
\* handler is at once at as_completed (line 422)
Submit ==
    /\ pc = "start"
    /\ access_ok
    /\ \E b \in bench_forms : custom_profile' = ParseProfile(b)
    /\ futures' = <<>>
    /\ pc' = IF prods = <<>> THEN "pool" ELSE "submit"
    /\ UNCHANGED <<callVars, generator, client_forms, bench_forms, access_ok, prods, form, results, costs, roi_data,
                   tot_inv, tot_save, roi_pct, roi_card, http, error>>

\* lines 418-421: executor.submit for the next entry of prods; the pool
\* threads run the tasks submitted so far while the handler submits the
\* rest.  After the last one the handler waits in as_completed (line 422).
SubmitTask ==
    /\ pc = "submit"
    /\ Len(futures) < Len(prods)
    /\ futures' = Append(futures, [state |-> "queued", raised |-> FALSE, cfo_none |-> FALSE,
                                   data |-> EmptyDict])
    /\ pc' = IF Len(futures) + 1 = Len(prods) THEN "pool" ELSE "submit"
    /\ UNCHANGED <<callVars, generator, client_forms, bench_forms, custom_profile, access_ok, prods, form, results, costs, roi_data,
                   tot_inv, tot_save, roi_pct, roi_card, http, error>>

\* the pool is open: tasks are being submitted or awaited
PoolOpen == pc \in {"submit", "pool"}

Running == {j \in 1..Len(futures) : futures[j].state = "running"}

\* a pool without a limit: a thread for every queued task
WorkerStart_Mutant(i) ==
    /\ PoolOpen
    /\ futures[i].state = "queued"
    /\ futures' = [futures EXCEPT ![i].state = "running"]
    /\ UNCHANGED <<callVars, generator, client_forms, bench_forms, custom_profile, pc, access_ok, prods, form, results, costs, roi_data,
                   tot_inv, tot_save, roi_pct, roi_card, http, error>>

\* a pool thread takes a queued task
WorkerStart(i) ==
    /\ PoolOpen
    /\ futures[i].state = "queued"
    /\ Cardinality(Running) < MaxWorkers
    /\ futures' = [futures EXCEPT ![i].state = "running"]
    /\ UNCHANGED <<callVars, generator, client_forms, bench_forms, custom_profile, pc, access_ok, prods, form, results, costs, roi_data,
                   tot_inv, tot_save, roi_pct, roi_card, http, error>>

\* lines 310-359: process_single_product returns, on the generator's answer r
WorkerFinish(i) ==
    /\ PoolOpen
    /\ futures[i].state = "running"
    /\ \E r \in generator :
          futures' = [futures EXCEPT
                         ![i] = [state |-> "done", raised |-> FALSE,
                                 cfo_none |-> r.none,
                                 data |-> process_single_product(prods[i], r)]]
    /\ UNCHANGED <<callVars, generator, client_forms, bench_forms, custom_profile, pc, access_ok, prods, form, results, costs, roi_data,
                   tot_inv, tot_save, roi_pct, roi_card, http, error>>

\* line 331: the triage answer is a JSON value without .get; the task raises
WorkerRaise(i) ==
    /\ PoolOpen
    /\ futures[i].state = "running"
    /\ futures' = [futures EXCEPT
                      ![i] = [state |-> "done", raised |-> TRUE, cfo_none |-> FALSE,
                              data |-> EmptyDict]]
    /\ UNCHANGED <<callVars, generator, client_forms, bench_forms, custom_profile, pc, access_ok, prods, form, results, costs, roi_data,
                   tot_inv, tot_save, roi_pct, roi_card, http, error>>

Collect_Mutant(i) ==
    /\ pc = "pool"
    /\ futures[i].state = "done"
    /\ results' = DictSet(results, prods[Len(results) + 1],
                          IF futures[i].raised THEN EmptyDict ELSE futures[i].data)
    /\ futures' = [futures EXCEPT
                      ![i] = [state |-> "collected", raised |-> FALSE,
                              cfo_none |-> FALSE, data |-> EmptyDict]]
    /\ UNCHANGED <<callVars, generator, client_forms, bench_forms, custom_profile, pc, access_ok, prods, form, costs, roi_data,
                   tot_inv, tot_save, roi_pct, roi_card, http, error>>

\* lines 422-427: as_completed hands over a finished task, whose result (or
\* exception) is read once
Collect(i) ==
    /\ pc = "pool"
    /\ futures[i].state = "done"
    /\ results' = DictSet(results, prods[i],
                          IF futures[i].raised THEN EmptyDict ELSE futures[i].data)
    /\ futures' = [futures EXCEPT
                      ![i] = [state |-> "collected", raised |-> FALSE,
                              cfo_none |-> FALSE, data |-> EmptyDict]]
    /\ UNCHANGED <<callVars, generator, client_forms, bench_forms, custom_profile, pc, access_ok, prods, form, costs, roi_data,
                   tot_inv, tot_save, roi_pct, roi_card, http, error>>

\* lines 429-451: costs from the cost and term fields of the form (read here
\* for the first time), then the totals and roi_data over results.items()
Aggregate ==
    /\ pc = "pool"
    /\ \A i \in 1..Len(futures) : futures[i].state = "collected"
    /\ \E f \in [SeqRange(prods) -> client_forms] :
          /\ form' = f
          /\ \E cst \in {ParseCosts(prods, f)} :
                /\ costs' = cst
                /\ \E agg \in {AggregateFrom(results, cst, 1, NoTotals)} :
                      IF agg.raised
                      THEN /\ pc' = "done"
                           /\ http' = 500
                           /\ error' = AggregateError(results)
                           /\ UNCHANGED <<roi_data, tot_inv, tot_save>>
                      ELSE /\ pc' = "aggregated"
                           /\ roi_data' = agg.roi_data
                           /\ tot_inv' = agg.tot_inv
                           /\ tot_save' = agg.tot_save
                           /\ UNCHANGED <<http, error>>
    /\ UNCHANGED <<callVars, generator, client_forms, bench_forms, custom_profile, access_ok, prods, futures, results, roi_pct, roi_card>>

\* lines 453-483: the summary page with the ROI card
SummaryPage ==
    /\ pc = "aggregated"
    /\ \E r \in {RoiPct(tot_save, tot_inv)} :
          IF r.raised
          THEN /\ pc' = "done"
               /\ http' = 500
               /\ error' = "ZeroDivisionError"
               /\ UNCHANGED <<roi_pct, roi_card>>
          ELSE /\ pc' = "summary"
               /\ roi_pct' = [kind |-> r.kind, v |-> r.v]
               /\ roi_card' = FormatPct(r.v, r.side)
               /\ UNCHANGED <<http, error>>
    /\ UNCHANGED <<callVars, generator, client_forms, bench_forms, custom_profile, access_ok, prods, form, futures, results, costs,
                   roi_data, tot_inv, tot_save>>

\* lines 485-533: the product pages, the appendix and the response
Render ==
    /\ pc = "summary"
    /\ \E e \in {PagesError(prods, results, 1)} :
          /\ error' = IF e # "" THEN e ELSE AppendixError(custom_profile)
          /\ http' = IF error' = "" THEN 200 ELSE 500
    /\ pc' = "done"
    /\ UNCHANGED <<callVars, generator, client_forms, bench_forms, custom_profile, access_ok, prods, form, futures, results, costs,
                   roi_data, tot_inv, tot_save, roi_pct, roi_card>>

Next ==
    \/ Reject
    \/ Submit
    \/ SubmitTask
    \/ \E i \in 1..Len(futures) : WorkerStart(i)
    \/ \E i \in 1..Len(futures) : WorkerFinish(i)
    \/ \E i \in 1..Len(futures) : WorkerRaise(i)
    \/ \E i \in 1..Len(futures) : Collect(i)
    \/ Aggregate
    \/ SummaryPage
    \/ Render

Spec == Init /\ [][Next]_vars

(***************************************************************************)
(* Claims about the aggregation of /generate (checked under Spec).         *)
(***************************************************************************)
\* the aggregation loop has run and its totals stand
Aggregated == pc \in {"aggregated", "summary"}

\* the ROI card has been drawn from roi_pct
RoiHandedOver == pc = "summary"

IsZero(x) == x.n = 0

\* the annual savings of a product: the extracted amounts of its components
AnnualSavings(comps) ==
    SumOf([i \in 1..Len(comps) |-> extract_currency_value(SavingsValue(comps[i])).v])

\* C1: whenever the total investment is 0, the ROI percent handed to the
\* renderer is an explicit "undefined" value and never a number.
C1_RoiUndefinedIsExplicit ==
    (RoiHandedOver /\ IsZero(tot_inv)) => roi_pct.kind \notin {"int", "float"}

\* C2: for every product, investment = cost * term_months, and term_savings =
\* annual_savings * (term_months / 12), annual_savings being the sum of the
\* extracted savings_value of the product's components.
C2_PerProductFinancials ==
    Aggregated =>
        \A i \in 1..Len(roi_data) :
            LET p == roi_data[i].k
                r == roi_data[i].v
                comps == ComponentsOf(DictGet(results, p))
            IN  /\ r.components = comps
                /\ r.investment = RMul(costs[p].cost, costs[p].term)
                /\ RMul(r.savings, RInt(12)) = RMul(AnnualSavings(comps), costs[p].term)

C2_Witness ==
    /\ Aggregated
    /\ \E i \in 1..Len(roi_data) :
          /\ costs[roi_data[i].k].term = RInt(24)
          /\ Len(roi_data[i].v.components) >= 2
          /\ roi_data[i].v.savings = RInt(51001)
          /\ roi_data[i].v.investment = RInt(24000)

RECURSIVE SumInvestment(_)
SumInvestment(d) ==
    IF d = <<>> THEN RInt(0) ELSE RAdd(d[1].v.investment, SumInvestment(Tail(d)))

RECURSIVE SumSavings(_)
SumSavings(d) ==
    IF d = <<>> THEN RInt(0) ELSE RAdd(d[1].v.savings, SumSavings(Tail(d)))

\* C3: after aggregation every selected product has exactly one entry, and
\* total_investment and total_savings are the sums of the per-product
\* investment and term savings over the selected products.
C3_TotalsAreSums ==
    Aggregated =>
        /\ DictKeys(roi_data) = SeqRange(prods)
        /\ Cardinality(DictKeys(roi_data)) = Len(roi_data)
        /\ tot_inv = SumInvestment(roi_data)
        /\ tot_save = SumSavings(roi_data)

C3_Witness ==
    /\ Aggregated
    /\ Len(roi_data) = 2
    /\ \A i \in 1..2 : ~IsZero(roi_data[i].v.investment) /\ ~IsZero(roi_data[i].v.savings)
    /\ roi_data[1].v.savings # roi_data[2].v.savings
    /\ RLt(RInt(0), tot_inv)

\* C4: whenever total_investment > 0, roi_percent is
\* (total_savings - total_investment) / total_investment * 100, and no costs
\* and terms make the ROI computation divide by zero.
C4_RoiFormula ==
    /\ error # "ZeroDivisionError"
    /\ (pc \in {"summary", "done"} /\ RLt(RInt(0), tot_inv)) =>
          /\ roi_pct.kind = "float"
          /\ roi_pct.v = RDiv(RMul(RSub(tot_save, tot_inv), RInt(100)), tot_inv)

C4_Witness ==
    /\ RoiHandedOver
    /\ tot_inv = RInt(12000)
    /\ tot_save = RInt(25500)
    /\ roi_pct = [kind |-> "float", v |-> Rat(225, 2)]
    /\ roi_card = <<"1", "1", "2", "%">>

(***************************************************************************)
(* Claims about extract_currency_value (checked under SpecExtract).        *)
(***************************************************************************)
IsText == text_value.kind = "str"

\* the numeric substrings of the text, as numbers, and the suffix multiplier
NumbersIn(s) ==
    LET ms == FindAll(SuffixRemoved(Remove(Remove(Strip(s), "$"), ",")))
    IN  [i \in 1..Len(ms) |-> ParseFloat(ms[i]).v]

MultiplierOf(s) ==
    LET c == Remove(Remove(Strip(s), "$"), ",")
    IN  IF c = <<>> THEN 1
        ELSE IF c[Len(c)] \in {"k", "K"} THEN 1000
        ELSE IF c[Len(c)] \in {"m", "M"} THEN 1000000
        ELSE 1

\* C5: when the text holds several numeric substrings, the result is the one
\* of largest magnitude among them (times the suffix multiplier).
C5_LargestMagnitude ==
    (ext_pc = "returned" /\ IsText /\ Len(NumbersIn(text_value.s)) >= 2) =>
        \E i \in 1..Len(NumbersIn(text_value.s)) :
            /\ ext_result.v = RMul(NumbersIn(text_value.s)[i],
                                   RInt(MultiplierOf(text_value.s)))
            /\ \A j \in 1..Len(NumbersIn(text_value.s)) :
                  ~RLt(RAbs(NumbersIn(text_value.s)[i]), RAbs(NumbersIn(text_value.s)[j]))

\* C6: the phrase "15 Incidents * $150k cost * 45% avoided" gives 150000.0,
\* the $150k term scaled by its suffix.
C6_SuffixInsidePhrase ==
    (ext_pc = "returned" /\ text_value = PyStr(Phrase150k)) =>
        ext_result = Returned(RInt(150000))

\* ---- the reading of a text that is a single currency amount: an optional
\* "$", digits in well-formed thousands groups, an optional fraction, an
\* optional suffix k, K, m or M
AmountBody(s) == IF s # <<>> /\ s[1] = "$" THEN Tail(s) ELSE s
HasSuffix(s) ==
    AmountBody(s) # <<>> /\ AmountBody(s)[Len(AmountBody(s))] \in {"k", "K", "m", "M"}
AmountNumber(s) == IF HasSuffix(s) THEN DropLast(AmountBody(s)) ELSE AmountBody(s)
SuffixFactor(s) ==
    IF ~HasSuffix(s) THEN 1
    ELSE IF s[Len(s)] \in {"k", "K"} THEN 1000
    ELSE 1000000
DotAt(n) ==
    IF \E i \in 1..Len(n) : n[i] = "."
    THEN CHOOSE i \in 1..Len(n) : n[i] = "." /\ \A j \in 1..(i - 1) : n[j] # "."
    ELSE Len(n) + 1
IntPart(n) == SubSeq(n, 1, DotAt(n) - 1)
FracPart(n) == SubSeq(n, DotAt(n) + 1, Len(n))
AllDigits(s) == \A i \in 1..Len(s) : IsDigit(s[i])
WellGrouped(ip) ==
    /\ ip # <<>>
    /\ IsDigit(ip[1])
    /\ \A i \in 1..Len(ip) :
          \/ IsDigit(ip[i])
          \/ /\ ip[i] = ","
             /\ i + 3 <= Len(ip)
             /\ AllDigits(SubSeq(ip, i + 1, i + 3))
             /\ (i + 4 > Len(ip) \/ ip[i + 4] = ",")
IsSingleAmount(s) ==
    /\ WellGrouped(IntPart(AmountNumber(s)))
    /\ DotAt(AmountNumber(s)) <= Len(AmountNumber(s)) =>
          (FracPart(AmountNumber(s)) # <<>> /\ AllDigits(FracPart(AmountNumber(s))))
AmountValue(s) ==
    Rat(DigitsVal(SelectSeq(IntPart(AmountNumber(s)), IsDigit) \o FracPart(AmountNumber(s)))
            * SuffixFactor(s),
        Pow10(Len(FracPart(AmountNumber(s)))))

X105000 == <<"$", "1", "0", "5", ",", "0", "0", "0">>
X105k == <<"$", "1", "0", "5", "k">>
X105K == <<"$", "1", "0", "5", "K">>

\* C7: for a text that is a single currency amount the result is the number
\* without its currency symbol and thousands separators, times 1,000 for a
\* trailing k or K and times 1,000,000 for a trailing m or M; "$105,000",
\* "$105k" and "$105K" all give 105000.0.
C7_SingleAmount ==
    (ext_pc = "returned" /\ IsText) =>
        /\ IsSingleAmount(text_value.s) => ext_result = Returned(AmountValue(text_value.s))
        /\ text_value.s \in {X105000, X105k, X105K} => ext_result = Returned(RInt(105000))

C7_Witness ==
    /\ ext_pc = "returned"
    /\ text_value = PyStr(X105K)
    /\ IsSingleAmount(text_value.s)
    /\ ext_result = Returned(RInt(105000))

\* C8: for every textual input the result is a non-negative number.
C8_NonNegative ==
    (ext_pc = "returned" /\ IsText) => (~ext_result.raised /\ ext_result.v.n >= 0)

\* C9: no input makes the function raise, and an absent input or a text
\* without any numeric substring (a text with no digit) gives 0.0.
C9_TotalAndZero ==
    ext_pc = "returned" =>
        /\ ~ext_result.raised
        /\ (text_value.kind = "none" \/ (IsText /\ \A i \in 1..Len(text_value.s) :
                                                      ~IsDigit(text_value.s[i])))
              => ext_result.v = RInt(0)

C9_Witness ==
    /\ ext_pc = "returned"
    /\ text_value = PyStr(<<"$", "-", "k">>)
    /\ ext_result = Returned(RInt(0))

\* C10: when the input is already a number the result is that number, as a
\* float, for every numeric input including zero and negative numbers.
C10_NumericAsIs ==
    (ext_pc = "returned" /\ text_value.kind \in {"int", "float"}) =>
        ext_result = Returned(NumOf(text_value))

(***************************************************************************)
(* A request with one selected product whose generator answers with one    *)
(* driver (SpecOne).                                                       *)
(***************************************************************************)
OneDriver(text) == [none |-> FALSE, data |-> Analysis(<<Component(PyStr(text))>>)]

SingleDriverResponses ==
    { [none |-> TRUE, data |-> EmptyDict],
      OneDriver(<<"$", "2", "4", ",", "0", "0", "0">>),
      OneDriver(<<"$", "1", ".", "5", "k">>),
      OneDriver(<<"$", "1", "0", "5", "K">>),
      OneDriver(<<"9", "5", "0", ".", "2", "5">>) }

InitOne == InitRequest(SingleDriverResponses) /\ Len(prods) = 1

SpecOne == InitOne /\ [][Next]_vars

\* the one product of the request, its form and its only driver
TheProduct == prods[1]
TheDriver == DictGet(results, TheProduct).roi_components[1]

\* term_months is 12 (the default of an absent term field), the cost field is
\* a positive number, and the result holds a single driver whose
\* savings_value is a currency-formatted text
OneDriverCase ==
    /\ Len(prods) = 1
    /\ DictHas(results, TheProduct)
    /\ ~form[TheProduct].term.present
    /\ form[TheProduct].cost.present
    /\ ParseFloat(form[TheProduct].cost.s).ok
    /\ ParseFloat(form[TheProduct].cost.s).v.n > 0
    /\ Len(ComponentsOf(DictGet(results, TheProduct))) = 1
    /\ TheDriver.has_sv
    /\ TheDriver.savings_value.kind = "str"
    /\ IsSingleAmount(TheDriver.savings_value.s)

MonthlyCost == ParseFloat(form[TheProduct].cost.s).v
DriverAmount == AmountValue(TheDriver.savings_value.s)

\* C11: for one selected product, term_months = 12, monthly cost c and a
\* single driver whose savings_value is a currency-formatted text for S:
\* investment = 12 * c, annual savings = term savings = S, and roi_percent =
\* (S - 12 * c) / (12 * c) * 100; c = 1000 and "$24,000" give 12000, 24000
\* and 100.0.
C11_EndToEnd ==
    (RoiHandedOver /\ OneDriverCase) =>
        /\ DictGet(roi_data, TheProduct).investment = RMul(RInt(12), MonthlyCost)
        /\ DictGet(roi_data, TheProduct).savings = DriverAmount
        /\ tot_inv = RMul(RInt(12), MonthlyCost)
        /\ tot_save = DriverAmount
        /\ roi_pct.kind = "float"
        /\ roi_pct.v = RMul(RDiv(RSub(DriverAmount, RMul(RInt(12), MonthlyCost)),
                                 RMul(RInt(12), MonthlyCost)), RInt(100))
        /\ (MonthlyCost = RInt(1000) /\ DriverAmount = RInt(24000)) =>
              (tot_inv = RInt(12000) /\ tot_save = RInt(24000) /\ roi_pct.v = RInt(100))

C11_Witness ==
    /\ RoiHandedOver
    /\ OneDriverCase
    /\ TheDriver.savings_value.s = <<"$", "2", "4", ",", "0", "0", "0">>
    /\ tot_inv = RInt(12000)
    /\ tot_save = RInt(24000)
    /\ roi_pct = [kind |-> "float", v |-> RInt(100)]
    /\ roi_card = <<"1", "0", "0", "%">>

(***************************************************************************)
(* Linearity of the aggregation in the term (checked under Spec).          *)
(***************************************************************************)
\* the cost and term c with the term doubled
DoubledTerm(c) == [cost |-> c.cost, term |-> RMul(RInt(2), c.term)]

\* the financials of the components comps under the cost and term c
FinancialsOf(comps, c) == Financials(comps, ExtractAll(comps), c)

\* the forms whose cost field reads as in c and whose term fields read as
\* twice the term of c: the doubled term as a request can submit it
DoubledForms(c) == {f \in ProductForms : FormCost(f) = DoubledTerm(c)}

\* C12: for fixed value drivers and a fixed monthly cost, doubling
\* term_months doubles a product's term savings and doubles its investment.
C12_TermLinearity ==
    Aggregated =>
        \A i \in 1..Len(roi_data) :
            \E d \in {FinancialsOf(roi_data[i].v.components,
                                  DoubledTerm(costs[roi_data[i].k]))} :
                /\ d.savings = RMul(RInt(2), roi_data[i].v.savings)
                /\ d.investment = RMul(RInt(2), roi_data[i].v.investment)

C12_Witness ==
    /\ Aggregated
    /\ \E i \in 1..Len(roi_data) :
          /\ costs[roi_data[i].k] = [cost |-> RInt(1000), term |-> RInt(6)]
          /\ DoubledForms(costs[roi_data[i].k]) # {}
          /\ roi_data[i].v.investment = RInt(6000)
          /\ roi_data[i].v.savings = RInt(12750)
          /\ FinancialsOf(roi_data[i].v.components,
                          DoubledTerm(costs[roi_data[i].k])).savings = RInt(25500)

(***************************************************************************)
(* One call of create_payback_chart (SpecChart): the cash-flow series that *)
(* is plotted.  The arguments are doubles; those enumerated here have a    *)
(* twelfth that is a double too, so every sum of the loop is exact.        *)
(***************************************************************************)
\* months = list(range(13))
MonthCount == 13

ChartInvestments ==
    {RInt(-12000), Rat(-1, 2), RInt(0), RInt(6000), RInt(12000), Rat(48001, 2)}

ChartSavings ==
    {RInt(-24000), RInt(-6), RInt(0), RInt(3), RInt(24000), RInt(25500)}

\* line 82: start_val = -1 * abs(investment)
StartVal_Mutant(inv) == RMul(RInt(-1), inv)

StartVal(inv) == RMul(RInt(-1), RAbs(inv))

\* line 83: monthly_gain = (annual_savings / 12.0) if annual_savings else 0
MonthlyGain(savings) == IF savings.n # 0 THEN RDiv(savings, RInt(12)) ELSE RInt(0)

InitChart ==
    /\ investment \in ChartInvestments
    /\ annual_savings \in ChartSavings
    /\ chart_pc = "call"
    /\ current = RInt(0)
    /\ cash_flow = <<>>
    /\ text_value = PyNone
    /\ ext_pc = "idle"
    /\ ext_result = Returned(RInt(0))
    /\ RequestIdle
    /\ BenchIdle
    /\ MoreIdle

\* lines 81-86: before the loop
ChartCall ==
    /\ chart_pc = "call"
    /\ current' = StartVal(investment)
    /\ cash_flow' = <<>>
    /\ chart_pc' = "loop"
    /\ UNCHANGED <<investment, annual_savings, extVars, benchVars, moreVars, reqVars>>

\* lines 87-89: one turn of the loop over months
ChartStep ==
    /\ chart_pc = "loop"
    /\ Len(cash_flow) < MonthCount
    /\ cash_flow' = Append(cash_flow, current)
    /\ current' = RAdd(current, MonthlyGain(annual_savings))
    /\ UNCHANGED <<investment, annual_savings, chart_pc, extVars, benchVars, moreVars, reqVars>>

\* lines 91-107: the series is plotted and the image returned
ChartReturn ==
    /\ chart_pc = "loop"
    /\ Len(cash_flow) = MonthCount
    /\ chart_pc' = "returned"
    /\ UNCHANGED <<investment, annual_savings, current, cash_flow, extVars,
                   benchVars, moreVars, reqVars>>

NextChart == ChartCall \/ ChartStep \/ ChartReturn

SpecChart == InitChart /\ [][NextChart]_vars

\* C13: for every investment and savings (positive, zero or negative) the
\* series has exactly 13 points, for months 0..12; point 0 is
\* -abs(investment); each later point is the previous point plus savings/12;
\* so point 12 is -abs(investment) + savings.  Investment 12000 and savings
\* 24000 start at -12000 and end at 12000.
C13_CashFlow ==
    chart_pc = "returned" =>
        /\ Len(cash_flow) = 13
        /\ cash_flow[1] = (IF investment.n < 0 THEN investment
                           ELSE RSub(RInt(0), investment))
        /\ \A k \in 2..13 :
              cash_flow[k] = RAdd(cash_flow[k - 1], RDiv(annual_savings, RInt(12)))
        /\ cash_flow[13] = RAdd(cash_flow[1], annual_savings)
        /\ (investment = RInt(12000) /\ annual_savings = RInt(24000)) =>
              (cash_flow[1] = RInt(-12000) /\ cash_flow[13] = RInt(12000))

C13_Witness ==
    /\ chart_pc = "returned"
    /\ investment = RInt(-12000)
    /\ annual_savings = RInt(25500)
    /\ cash_flow[1] = RInt(-12000)
    /\ cash_flow[2] = RInt(-9875)
    /\ cash_flow[13] = RInt(13500)

(***************************************************************************)
(* Claims about the per-product fallback and the worker pool (checked      *)
(* under Spec unless said otherwise).                                      *)
(***************************************************************************)
\* the task of prods[i] has returned after a generator call that gave None
GeneratorFailed(i) ==
    futures[i].state = "done" /\ ~futures[i].raised /\ futures[i].cfo_none

\* the pre-baked entries of the static table for product p
StaticDrivers(p) == KnowledgeBaseProductData[p].hard_roi

\* C14: when the generator fails for a product (returns nothing), the data
\* of that product is the static fallback table's entry, and the value-driver
\* list used for it equals the table's pre-baked entries for that product.
C14_FallbackIsTableEntry ==
    \A i \in 1..Len(futures) :
        GeneratorFailed(i) =>
            /\ futures[i].data = KnowledgeBaseProductData[prods[i]]
            /\ ComponentsOf(futures[i].data) = StaticDrivers(prods[i])

\* the answers of the generator that are used as they are
GoodAnswers == {r \in generator : ResponseTruthy(r)}

\* a product whose processing failed (the generator gave None, or the worker
\* raised) is stored with the empty fallback
FailedEntry(k) == results[k].v = EmptyDict

\* the aggregation had the product of entry k been answered with r instead
HadNotFailed(k, r) ==
    AggregateFrom(DictSet(results, results[k].k, r.data), costs, 1, NoTotals)

\* C15: when processing of one product fails, the results, investment and
\* term savings of every other selected product are the same as if that
\* failure had not happened; no failure inside the pool answers the request,
\* and the aggregation is not cut short.
C15_FailureIsolated ==
    /\ PoolOpen => (http = 0 /\ error = "")
    /\ pc = "done" => error \notin {"Exception", "AttributeError"}
    /\ Aggregated =>
          \A k \in 1..Len(results) :
              FailedEntry(k) =>
                  \A r \in GoodAnswers :
                      \E alt \in {HadNotFailed(k, r)} :
                          \A j \in 1..Len(results) :
                              j # k =>
                                  /\ DictHas(roi_data, results[j].k)
                                  /\ DictGet(roi_data, results[j].k)
                                        = DictGet(alt.roi_data, results[j].k)

C15_Witness ==
    /\ Aggregated
    /\ Len(results) = 2
    /\ FailedEntry(1)
    /\ ~FailedEntry(2)
    /\ GoodAnswers # {}
    /\ DictGet(roi_data, results[2].k).savings = RInt(51001)
    /\ DictGet(roi_data, results[1].k).savings = RInt(0)
    /\ DictGet(roi_data, results[1].k).investment = RInt(24000)

(***************************************************************************)
(* A request whose generator answers with JSON of another shape than the   *)
(* prompt asks for (SpecMalformed).  run_gemini_agent returns whatever     *)
(* json.loads gives.                                                       *)
(***************************************************************************)
\* [1]
JsonArray(n) ==
    [kind |-> "array", len |-> n, other |-> {}, has_rc |-> FALSE,
     rc_kind |-> "list", roi_components |-> <<>>]

\* {"impact": "..."}
NoComponents ==
    [kind |-> "object", len |-> 0, other |-> {"impact"}, has_rc |-> FALSE,
     rc_kind |-> "list", roi_components |-> <<>>]

\* {"impact": "...", "roi_components": 5}
NumberComponents ==
    [kind |-> "object", len |-> 0, other |-> {"impact"}, has_rc |-> TRUE,
     rc_kind |-> "number", roi_components |-> <<>>]

\* an item of roi_components that is a number
NumberItem == [obj |-> FALSE, has_sv |-> FALSE, savings_value |-> PyInt(5)]

MalformedResponses ==
    { [none |-> TRUE, data |-> EmptyDict],
      [none |-> FALSE, data |-> JsonArray(1)],
      [none |-> FALSE, data |-> NoComponents],
      [none |-> FALSE, data |-> NumberComponents],
      [none |-> FALSE, data |-> Analysis(<<NumberItem>>)] }

InitMalformed == InitRequest(MalformedResponses)

SpecMalformed == InitMalformed /\ [][Next]_vars

\* a JSON object with a list of driver records under 'roi_components'
WellFormed(d) ==
    /\ d.kind = "object"
    /\ d.has_rc
    /\ d.rc_kind = "list"
    /\ \A i \in 1..Len(d.roi_components) : d.roi_components[i].obj

\* C16: every generator response that is malformed or lacks an expected
\* field (not a JSON object, no roi_components, roi_components not a list of
\* driver records) is treated as a failure: the product gets its fallback
\* and no error is raised.
C16_MalformedIsFailure ==
    /\ \A k \in 1..Len(results) :
          WellFormed(results[k].v) \/ results[k].v = FallbackData(results[k].k)
    /\ error \notin {"AttributeError", "TypeError"}
    /\ http # 500

\* the pool has finished: every task has been handed over by as_completed
PoolFinished ==
    \/ pc \in {"aggregated", "summary"}
    \/ (pc = "pool" /\ \A i \in 1..Len(futures) : futures[i].state = "collected")

\* the orders in which the entries of results can have been inserted
Reorderings(res) ==
    {[i \in 1..Len(res) |-> res[f[i]]] : f \in Permutations(1..Len(res))}

\* a step in which as_completed hands over the task of prods[i]
Collected(i) == futures[i].state = "done" /\ futures'[i].state = "collected"

\* the step stores the outcome of the task under the task's own product and
\* leaves the entries of the other products alone
StoredUnderOwnName(i) ==
    /\ DictHas(results', prods[i])
    /\ DictGet(results', prods[i])
          = (IF futures[i].raised THEN EmptyDict ELSE futures[i].data)
    /\ \A p \in Products :
          p # prods[i] =>
              /\ DictHas(results', p) = DictHas(results, p)
              /\ DictHas(results, p) => DictGet(results', p) = DictGet(results, p)

OneEntryPerProduct ==
    PoolFinished =>
        /\ DictKeys(results) = SeqRange(prods)
        /\ Cardinality(DictKeys(results)) = Len(results)

SameInEveryOrder ==
    Aggregated =>
        \A res \in Reorderings(results) :
            \E alt \in {AggregateFrom(res, costs, 1, NoTotals)} :
                /\ alt.tot_inv = tot_inv
                /\ alt.tot_save = tot_save
                /\ \A k \in 1..Len(results) :
                      DictGet(alt.roi_data, results[k].k)
                          = DictGet(roi_data, results[k].k)

\* C17: whatever order the workers complete in, once the pool has finished
\* the results hold exactly one entry per selected product, stored under that
\* product's own name with that product's own data, and the per-product
\* financials and the totals are the same for every completion order.
C17_AnyCompletionOrder ==
    /\ []OneEntryPerProduct
    /\ []SameInEveryOrder
    /\ [][\A i \in 1..Len(futures) : Collected(i) => StoredUnderOwnName(i)]_vars

C17_Witness ==
    /\ Aggregated
    /\ Len(prods) = 2
    /\ Len(results) = 2
    /\ results[1].k = prods[2]
    /\ results[2].k = prods[1]
    /\ results[1].v # results[2].v
    /\ ~IsZero(DictGet(roi_data, prods[1]).savings)
    /\ ~IsZero(DictGet(roi_data, prods[2]).savings)
    /\ DictGet(roi_data, prods[1]).savings # DictGet(roi_data, prods[2]).savings

(***************************************************************************)
(* Progress of a request (SpecLive).  The steps of the handler and of the  *)
(* pool are taken when they can be: the handler thread runs, an idle pool  *)
(* thread takes a queued task, as_completed hands over a finished task.    *)
(* The return of process_single_product waits for run_gemini_agent, which  *)
(* waits for the collaborator's answer: generate_content is called without *)
(* a timeout, as_completed is called without one, and no step of the code  *)
(* ends a call that is not answered.                                       *)
(***************************************************************************)
HandlerStep == Reject \/ Submit \/ SubmitTask \/ Aggregate \/ SummaryPage \/ Render

PoolStep ==
    \/ \E i \in 1..Len(futures) : WorkerStart(i)
    \/ \E i \in 1..Len(futures) : Collect(i)

\* the answers of the generator here: None, or an analysis with an empty
\* list of drivers (the amounts play no part in the progress of a request)
LiveResponses ==
    { [none |-> TRUE, data |-> EmptyDict],
      [none |-> FALSE, data |-> Analysis(<<>>)] }

InitLive == InitRequest(LiveResponses)

SpecLive == InitLive /\ [][Next]_vars /\ WF_vars(HandlerStep) /\ WF_vars(PoolStep)

\* C18: a /generate request eventually completes even when a collaborator
\* never responds: the unanswered call is treated as failed after a bounded
\* wait and the product gets its fallback.
C18_EventuallyCompletes == <>(pc = "done")

(***************************************************************************)
(* benchmarks.get_benchmark_profile(industry_input, revenue_input).        *)
(***************************************************************************)
Utilities == <<"U", "t", "i", "l", "i", "t", "i", "e", "s">>
Retail == <<"R", "e", "t", "a", "i", "l">>
Finance == <<"F", "i", "n", "a", "n", "c", "e">>
Healthcare == <<"H", "e", "a", "l", "t", "h", "c", "a", "r", "e">>
Insurance == <<"I", "n", "s", "u", "r", "a", "n", "c", "e">>
Technology == <<"T", "e", "c", "h", "n", "o", "l", "o", "g", "y">>
DefaultKey == <<"D", "e", "f", "a", "u", "l", "t">>

\* INDUSTRY_PROFILES.keys(), in the order the table is written
IndustryKeys == <<Utilities, Retail, Finance, Healthcare, Insurance, Technology>>

SizeNames == {"Small", "Medium", "Large"}
CategoryKeys == {"ops", "incidents", "cx", "dev"}

\* the table entry of industry k and size s, by the keys it holds
Profile(k, s) == [industry |-> k, size |-> s, categories |-> CategoryKeys]
EmptyProfile == [industry |-> <<>>, size |-> "", categories |-> {}]

INDUSTRY_PROFILES ==
    [k \in {IndustryKeys[i] : i \in 1..Len(IndustryKeys)} |->
        [s \in SizeNames |-> Profile(k, s)]]

\* the revenue thresholds (upper bounds of Small and of Medium)
SIZE_DEFINITIONS ==
    [k \in {Retail, Finance, Technology, Healthcare, Utilities, Insurance, DefaultKey} |->
        CASE k = Retail -> [Small |-> 50000000, Medium |-> 2000000000]
          [] k = Finance -> [Small |-> 25000000, Medium |-> 500000000]
          [] k = Technology -> [Small |-> 20000000, Medium |-> 250000000]
          [] k = Healthcare -> [Small |-> 30000000, Medium |-> 1000000000]
          [] k = Utilities -> [Small |-> 40000000, Medium |-> 1500000000]
          [] k = Insurance -> [Small |-> 30000000, Medium |-> 1000000000]
          [] OTHER -> [Small |-> 50000000, Medium |-> 1000000000]]

\* lines 9-15 without the break: the last matching key stays
RECURSIVE MatchFrom_Mutant(_, _, _)
MatchFrom_Mutant(text, i, key) ==
    IF i > Len(IndustryKeys) THEN key
    ELSE MatchFrom_Mutant(text, i + 1,
             IF Contains(Lower(text), Lower(IndustryKeys[i])) THEN IndustryKeys[i] ELSE key)

\* lines 12-15: the loop over the keys from the i-th on; key is industry_key
RECURSIVE MatchFrom(_, _, _)
MatchFrom(text, i, key) ==
    IF i > Len(IndustryKeys) THEN key
    ELSE IF Contains(Lower(text), Lower(IndustryKeys[i])) THEN IndustryKeys[i]
    ELSE MatchFrom(text, i + 1, key)

\* lines 9-15: industry_key; a truthy input that is no string has no lower()
IndustryOf(v) ==
    IF ~Truthy(v) THEN [raised |-> FALSE, key |-> Technology]
    ELSE IF v.kind # "str" THEN [raised |-> TRUE, key |-> Technology]
    ELSE [raised |-> FALSE, key |-> MatchFrom(v.s, 1, Technology)]

\* rev < t for a whole number t
BelowThreshold(rev, t) == (rev.n \div rev.d) < t

\* lines 18-31 without the try: a revenue that is no number raises
SizeOf_Mutant(v, key) ==
    IF ~Truthy(v) THEN [raised |-> FALSE, size |-> "Medium"]
    ELSE LET rev == ParseFloat(Remove(Remove(StrOf(v), ","), "$"))
             thresholds == IF key \in DOMAIN SIZE_DEFINITIONS
                           THEN SIZE_DEFINITIONS[key] ELSE SIZE_DEFINITIONS[DefaultKey]
         IN  IF ~rev.ok THEN [raised |-> TRUE, size |-> "Medium"]
             ELSE IF BelowThreshold(rev.v, thresholds.Small)
                  THEN [raised |-> FALSE, size |-> "Small"]
             ELSE IF BelowThreshold(rev.v, thresholds.Medium)
                  THEN [raised |-> FALSE, size |-> "Medium"]
             ELSE [raised |-> FALSE, size |-> "Large"]

\* lines 18-31: size; a revenue that is no number keeps the default
SizeOf(v, key) ==
    IF ~Truthy(v) THEN [raised |-> FALSE, size |-> "Medium"]
    ELSE LET rev == ParseFloat(Remove(Remove(StrOf(v), ","), "$"))
             thresholds == IF key \in DOMAIN SIZE_DEFINITIONS
                           THEN SIZE_DEFINITIONS[key] ELSE SIZE_DEFINITIONS[DefaultKey]
         IN  IF ~rev.ok THEN [raised |-> FALSE, size |-> "Medium"]
             ELSE IF BelowThreshold(rev.v, thresholds.Small)
                  THEN [raised |-> FALSE, size |-> "Small"]
             ELSE IF BelowThreshold(rev.v, thresholds.Medium)
                  THEN [raised |-> FALSE, size |-> "Medium"]
             ELSE [raised |-> FALSE, size |-> "Large"]

\* lines 34-38: the table entry, or Retail/Medium when there is none
ProfileOf(key, size) ==
    LET profile == IF key \in DOMAIN INDUSTRY_PROFILES /\ size \in DOMAIN INDUSTRY_PROFILES[key]
                   THEN INDUSTRY_PROFILES[key][size] ELSE EmptyProfile
    IN  IF profile.categories = {} THEN INDUSTRY_PROFILES[Retail]["Medium"] ELSE profile

BenchRaises == [raised |-> TRUE, profile |-> EmptyProfile, size |-> "", industry_key |-> <<>>]

get_benchmark_profile(ind, revenue) ==
    LET i == IndustryOf(ind)
        z == SizeOf(revenue, i.key)
    IN  IF i.raised \/ z.raised THEN BenchRaises
        ELSE [raised |-> FALSE, profile |-> ProfileOf(i.key, z.size),
              size |-> z.size, industry_key |-> i.key]

\* industry inputs: null, empty, each spelling of one key, two keys in either
\* order, near misses, and a number
BenchIndustries ==
    {PyNone, PyStr(<<>>), PyInt(7),
     PyStr(Retail), PyStr(<<"R", "E", "T", "A", "I", "L">>),
     PyStr(<<"f", "I", "n", "A", "n", "C", "e">>),
     PyStr(<<"u", "t", "i", "l", "i", "t", "i", "e", "s">>),
     PyStr(<<"H", "E", "A", "L", "T", "H", "C", "A", "R", "E">>),
     PyStr(Insurance), PyStr(Technology),
     PyStr(<<"e", "-", "R", "e", "t", "a", "i", "l", "e", "r">>),
     PyStr(Retail \o <<" ">> \o Finance),
     PyStr(Finance \o <<" ", "/", " ">> \o Utilities),
     PyStr(<<"i", "n", "s", "u", "r", "t", "e", "c", "h", "n", "o", "l", "o", "g", "y">>),
     PyStr(<<"U", "t", "i", "l", "i", "t", "i", "e">>),
     PyStr(<<"B", "i", "o", "t", "e", "c", "h">>),
     PyStr(<<"?", "?", "$">>)}

\* revenue inputs: null, zero, negative, no number, and amounts on both sides
\* of the thresholds
BenchRevenues ==
    {PyNone, PyInt(0), PyFloat(0), PyInt(-5), PyFloat(5),
     PyStr(<<>>), PyStr(<<"a", "b", "c">>), PyStr(<<"0">>), PyStr(<<"-", "5">>),
     PyStr(<<"$", "2", "5", ",", "0", "0", "0", ",", "0", "0", "0">>),
     PyStr(<<"$", "4", "9", ",", "9", "9", "9", ",", "9", "9", "9", ".", "5">>),
     PyInt(19999999), PyInt(20000000), PyInt(249999999), PyInt(250000000),
     PyInt(1999999999),
     PyStr(<<"2", ",", "0", "0", "0", ",", "0", "0", "0", ",", "0", "0", "0">>)}

InitBench ==
    /\ industry_input \in BenchIndustries
    /\ revenue_input \in BenchRevenues
    /\ bench_pc = "call"
    /\ bench_result = <<>>
    /\ ExtractIdle
    /\ ChartIdle
    /\ RequestIdle
    /\ MoreIdle

CallBenchmark ==
    /\ bench_pc = "call"
    /\ bench_result' = get_benchmark_profile(industry_input, revenue_input)
    /\ bench_pc' = "returned"
    /\ UNCHANGED <<industry_input, revenue_input, extVars, chartVars, moreVars, reqVars>>

NextBench == CallBenchmark

SpecBench == InitBench /\ [][NextBench]_vars

\* the call was made with an industry that is a string or null
BenchReturned == bench_pc = "returned" /\ industry_input.kind \in {"str", "none"}

\* C19: for every industry string (empty, unrecognized, garbage) and every
\* revenue input (negative, zero, null, non-numeric string) the call does not
\* raise, its profile holds the categories ops, incidents, cx and dev, and its
\* size class is one of Small, Medium, Large.
C19_Total ==
    BenchReturned =>
        /\ ~bench_result.raised
        /\ {"ops", "incidents", "cx", "dev"} \subseteq bench_result.profile.categories
        /\ bench_result.size \in {"Small", "Medium", "Large"}

\* a garbage industry with a revenue that is no number has been answered
C19_Witness ==
    /\ BenchReturned
    /\ industry_input = PyStr(<<"?", "?", "$">>)
    /\ revenue_input = PyStr(<<"a", "b", "c">>)
    /\ ~bench_result.raised
    /\ bench_result.size = "Medium"

\* the positions in the table of the keys whose lower-cased name occurs in the
\* lower-cased input
MatchingKeys ==
    {i \in 1..Len(IndustryKeys) :
        \E j \in 1..Len(industry_input.s) : \E k \in j..Len(industry_input.s) :
            Lower(SubSeq(industry_input.s, j, k)) = Lower(IndustryKeys[i])}

\* C20: the industry is the first key of the table, in table order, whose
\* lower-cased name occurs in the lower-cased input; with no such key, or an
\* empty or null input, it is Technology; an input that is one key in any
\* letter case resolves to that key.
C20_FirstMatch ==
    BenchReturned =>
        /\ MatchingKeys = {} => bench_result.industry_key = Technology
        /\ \A i \in MatchingKeys :
              (\A j \in MatchingKeys : i <= j) => bench_result.industry_key = IndustryKeys[i]
        /\ \A i \in 1..Len(IndustryKeys) :
              Lower(industry_input.s) = Lower(IndustryKeys[i])
                  => bench_result.industry_key = IndustryKeys[i]

\* an input naming Finance before Utilities has resolved to Utilities, which
\* comes first in the table
C20_Witness ==
    /\ BenchReturned
    /\ industry_input = PyStr(Finance \o <<" ", "/", " ">> \o Utilities)
    /\ MatchingKeys = {1, 3}
    /\ bench_result.industry_key = Utilities

\* the revenue input is a number: an int, a float, or text that float() reads
\* once "," and "$" are dropped
NumericRevenue ==
    \/ revenue_input.kind \in {"int", "float"}
    \/ revenue_input.kind = "str"
         /\ ParseFloat(Remove(Remove(revenue_input.s, ","), "$")).ok

\* the whole part of the revenue (thresholds are whole numbers)
RevenueFloor ==
    CASE revenue_input.kind = "int" -> revenue_input.n
      [] revenue_input.kind = "float" -> revenue_input.n \div 10
      [] OTHER -> LET r == ParseFloat(Remove(Remove(revenue_input.s, ","), "$")).v
                  IN  r.n \div r.d

\* C21: for every industry and every numeric revenue (zero and negative
\* included) the size is Small below the industry's first threshold, Medium
\* from there up to the second threshold, and Large from the second threshold
\* on; only a null or unparsable revenue gives the default Medium.
C21_SizeByThreshold ==
    (BenchReturned /\ NumericRevenue) =>
        LET t == SIZE_DEFINITIONS[bench_result.industry_key]
        IN  bench_result.size =
                IF RevenueFloor < t.Small THEN "Small"
                ELSE IF RevenueFloor < t.Medium THEN "Medium" ELSE "Large"

(***************************************************************************)
(* A request whose form carries missing and non-numeric cost and term      *)
(* fields (lines 434-441).                                                 *)
(***************************************************************************)
FormCostFields ==
    {Absent, Field(<<"1", "0", "0", "0">>), Field(<<"a", "b", "c">>), Field(<<>>)}

FormTermFields ==
    { [term |-> Absent, term_custom |-> Absent],
      [term |-> Field(<<"2", "4">>), term_custom |-> Absent],
      [term |-> Field(<<"a", "b", "c">>), term_custom |-> Absent],
      [term |-> Field(<<"o", "t", "h", "e", "r">>), term_custom |-> Absent],
      [term |-> Field(<<"o", "t", "h", "e", "r">>), term_custom |-> Field(<<"6">>)],
      [term |-> Field(<<"o", "t", "h", "e", "r">>), term_custom |-> Field(<<"6", "x">>)] }

FormCases ==
    {[cost |-> c, term |-> t.term, term_custom |-> t.term_custom] :
        c \in FormCostFields, t \in FormTermFields}

FormResponses ==
    {[none |-> TRUE, data |-> EmptyDict],
     [none |-> FALSE, data |-> Analysis(<<Component(PyInt(24000))>>)]}

InitForm == InitRequestWith(FormResponses, FormCases)

SpecForm == InitForm /\ [][Next]_vars

\* a text that is no number: empty, or with a character that no number has
NonNumericText(s) ==
    s = <<>> \/ \E i \in 1..Len(s) : ~IsDigit(s[i]) /\ s[i] \notin {".", "-", "+", " "}

\* the cost field of form f is missing or non-numeric
BadCost(f) == ~f.cost.present \/ NonNumericText(f.cost.s)

\* the field that gives the term of form f: term_custom when term is 'other'
TermField(f) ==
    IF f.term.present /\ f.term.s = <<"o", "t", "h", "e", "r">> THEN f.term_custom ELSE f.term

\* the term of form f is missing or non-numeric
BadTerm(f) == ~TermField(f).present \/ NonNumericText(TermField(f).s)

\* the handler is past the parsing of the costs
CostsParsed == Aggregated \/ (pc = "done" /\ access_ok)

\* C22: for every product whose cost or term field is missing or non-numeric
\* the handler uses cost 0, respectively term 12, for it; a product whose
\* fields are numeric keeps its own cost and term whatever the fields of the
\* other products are; and the request goes on to the aggregation, which
\* gives every collected product its financials.
C22_FieldDefaults ==
    CostsParsed =>
        /\ DOMAIN costs = SeqRange(prods)
        /\ \A p \in SeqRange(prods) :
              /\ BadCost(form[p]) => costs[p].cost = RInt(0)
              /\ BadTerm(form[p]) => costs[p].term = RInt(12)
              /\ (form[p].cost = Field(<<"1", "0", "0", "0">>)
                    /\ form[p].term = Field(<<"2", "4">>))
                    => costs[p] = [cost |-> RInt(1000), term |-> RInt(24)]
        /\ DictKeys(roi_data) = DictKeys(results)

\* two products, one with a non-numeric term and one with numeric fields,
\* have been aggregated
C22_Witness ==
    /\ Aggregated
    /\ Len(prods) = 2
    /\ \E p, q \in SeqRange(prods) :
          /\ p # q
          /\ form[p].term = Field(<<"a", "b", "c">>)
          /\ form[p].cost = Field(<<"1", "0", "0", "0">>)
          /\ costs[p] = [cost |-> RInt(0), term |-> RInt(12)]
          /\ costs[q] = [cost |-> RInt(1000), term |-> RInt(24)]
          /\ DictGet(roi_data, q).investment = RInt(24000)

\* the requests of Spec, with the benchmark fields of BenchForms in the form
InitRender == InitRequestOf(GenResponses, ProductForms, BenchForms)

SpecRender == InitRender /\ [][Next]_vars

\* C23: a /generate request with the valid access code always ends with a
\* rendered document (200) and never with an unhandled error, whatever the
\* generator answered (a currency string as savings_value included) and
\* whatever the benchmark fields of the form hold.
C23_AlwaysRenders == (pc = "done" /\ access_ok) => (http = 200 /\ error = "")

\* C24: a /generate request whose access code is not the configured one is
\* answered 403 before anything is computed: no product is submitted to the
\* pool, no generator call is made, nothing is parsed, aggregated or rendered.
C24_RejectedBeforeWork ==
    ~access_ok =>
        /\ pc \in {"start", "done"}
        /\ pc = "done" => http = 403
        /\ futures = <<>> /\ results = <<>>
        /\ form = <<>> /\ costs = <<>> /\ roi_data = <<>>
        /\ tot_inv = RInt(0) /\ tot_save = RInt(0)
        /\ roi_pct.kind = "unset" /\ roi_card = <<>> /\ custom_profile = <<>>

\* a request for two products with a wrong code has been answered 403
C24_Witness == ~access_ok /\ Len(prods) = 2 /\ pc = "done" /\ http = 403

(***************************************************************************)
(* One /research request: research_client (lines 365-394).  The handler    *)
(* reads client_name, client_url and industry from the form and nothing    *)
(* else; the industry is industry_input, the revenue estimate is           *)
(* revenue_input, and the profile it answers with is bench_result.         *)
(***************************************************************************)
\* request.form.get('industry'): a text, or None for a missing field
ResearchIndustries ==
    {PyNone, PyStr(<<>>), PyStr(Retail), PyStr(<<"f", "I", "n", "A", "n", "C", "e">>),
     PyStr(<<"B", "i", "o", "t", "e", "c", "h">>)}

\* what run_gemini_agent returns to extract_revenue_from_context: None, an
\* object with the value under 'annual_revenue' (None: null or no such key),
\* or an array of len items
ScoutObject(v) == [kind |-> "object", len |-> 0, annual_revenue |-> v]
ScoutAnswers ==
    { [kind |-> "none", len |-> 0, annual_revenue |-> PyNone],
      ScoutObject(PyNone), ScoutObject(PyInt(0)), ScoutObject(PyInt(60000000)),
      ScoutObject(PyStr(<<"$", "2", "5", ",", "0", "0", "0", ",", "0", "0", "0">>)),
      [kind |-> "array", len |-> 0, annual_revenue |-> PyNone],
      [kind |-> "array", len |-> 1, annual_revenue |-> PyNone] }

\* line 273 on the answer a: result.get raises on a non-empty array
ScoutRaises(a) == a.kind = "array" /\ a.len > 0

\* lines 273-274: the revenue extract_revenue_from_context returns
ScoutRevenue(a) ==
    IF a.kind = "object" /\ Truthy(a.annual_revenue) THEN a.annual_revenue ELSE PyNone

researchRest == <<extVars, chartVars, reqVars, productVars, lockVars, mainVars>>

InitResearch ==
    /\ research_pc = "start"
    /\ code_presented \in BOOLEAN
    /\ tavily_key \in BOOLEAN
    /\ context = FALSE
    /\ research_http = 0
    /\ external_calls = <<>>
    /\ industry_input \in ResearchIndustries
    /\ revenue_input = PyNone
    /\ bench_pc = "idle"
    /\ bench_result = <<>>
    /\ ExtractIdle
    /\ ChartIdle
    /\ RequestIdle
    /\ ProductIdle
    /\ LockIdle
    /\ MainIdle

\* lines 372-376: the search call; it raises (line 379 passes), or gives no
\* result (the text is empty and line 266 returns None), or gives results
ResearchSearch ==
    /\ research_pc = "start"
    /\ tavily_key
    /\ external_calls' = Append(external_calls, "tavily.search")
    /\ \E outcome \in {"raises", "no results", "results"} :
          research_pc' = IF outcome = "results" THEN "scout" ELSE "profile"
    /\ UNCHANGED <<code_presented, tavily_key, context, research_http, benchVars,
                   researchRest>>

\* line 372: without a key no search is made
ResearchSkip ==
    /\ research_pc = "start"
    /\ ~tavily_key
    /\ research_pc' = "profile"
    /\ UNCHANGED <<code_presented, tavily_key, context, research_http, external_calls,
                   benchVars, researchRest>>

\* lines 377-379 with 265-274: the revenue scout's generator call
ResearchScout ==
    /\ research_pc = "scout"
    /\ external_calls' = Append(external_calls, "generate_content")
    /\ \E a \in ScoutAnswers :
          IF ScoutRaises(a)
          THEN context' = FALSE /\ revenue_input' = PyNone
          ELSE context' = TRUE /\ revenue_input' = ScoutRevenue(a)
    /\ research_pc' = "profile"
    /\ UNCHANGED <<code_presented, tavily_key, research_http, industry_input, bench_pc,
                   bench_result, researchRest>>

\* lines 382-394: the profile is looked up and the answer sent
ResearchProfile ==
    /\ research_pc = "profile"
    /\ bench_result' = get_benchmark_profile(industry_input, revenue_input)
    /\ bench_pc' = "returned"
    /\ research_http' = IF bench_result'.raised THEN 500 ELSE 200
    /\ research_pc' = "done"
    /\ UNCHANGED <<code_presented, tavily_key, context, external_calls, industry_input,
                   revenue_input, researchRest>>

NextResearch == ResearchSearch \/ ResearchSkip \/ ResearchScout \/ ResearchProfile

SpecResearch == InitResearch /\ [][NextResearch]_vars

\* C25: the access code gates the whole operation: on no endpoint is an
\* external collaborator (search, revenue extraction, content generation)
\* called for a request that has not presented the valid access code.
C25_CodeGatesCollaborators ==
    /\ external_calls # <<>> => code_presented
    /\ futures # <<>> => access_ok

(***************************************************************************)
(* One call of process_single_product (lines 310-359), step by step: the   *)
(* preview short-circuit, the choice of the formula template, the triage   *)
(* call and the CFO call.                                                  *)
(***************************************************************************)
HammerQA == <<"H", "a", "m", "m", "e", "r", " ", "Q", "A">>
HammerVoiceExplorer == <<"H", "a", "m", "m", "e", "r", " ", "V", "o", "i", "c", "e", "E", "x", "p", "l", "o", "r", "e", "r">>
HammerPerformance == <<"H", "a", "m", "m", "e", "r", " ", "P", "e", "r", "f", "o", "r", "m", "a", "n", "c", "e">>
HammerVoiceWatch == <<"H", "a", "m", "m", "e", "r", " ", "V", "o", "i", "c", "e", "W", "a", "t", "c", "h">>
HammerEdge == <<"H", "a", "m", "m", "e", "r", " ", "E", "d", "g", "e">>
AtivaEnterprise == <<"A", "t", "i", "v", "a", " ", "E", "n", "t", "e", "r", "p", "r", "i", "s", "e">>

\* SELECTOR_LOGIC.keys(), in the order the table is written
SelectorKeys ==
    <<HammerQA, HammerVoiceExplorer, HammerPerformance,
      HammerVoiceWatch, HammerEdge, AtivaEnterprise>>

\* a template: its drivers in order, each with its label
Driver(name, label) == [name |-> name, label |-> label]
SELECTOR_LOGIC ==
    [k \in {SelectorKeys[i] : i \in 1..Len(SelectorKeys)} |->
        CASE k = HammerQA ->
                <<Driver("Efficiency", "Regression Automation"),
                  Driver("Risk", "Shift-Left Detection"),
                  Driver("Strategic", "Agile Velocity")>>
          [] k = HammerVoiceExplorer ->
                <<Driver("Efficiency", "Discovery Automation"),
                  Driver("Risk", "Design Adherence"),
                  Driver("Strategic", "Migration Assurance")>>
          [] k = HammerPerformance ->
                <<Driver("Efficiency", "Volume Validation"),
                  Driver("Risk", "Day 1 Outage Avoidance"),
                  Driver("Strategic", "Emergency Remediation")>>
          [] k = HammerVoiceWatch ->
                <<Driver("Efficiency", "MTTR Reduction"),
                  Driver("Risk", "Outage Prevention"),
                  Driver("Strategic", "Silent Failure Detection")>>
          [] k = HammerEdge ->
                <<Driver("Efficiency", "Mean Time to Innocence"),
                  Driver("Risk", "Hardware Lifecycle ROI"),
                  Driver("Strategic", "VDI/CX Stability")>>
          [] OTHER ->
                <<Driver("Efficiency", "Cross-Domain Correlation"),
                  Driver("Risk", "Predictive Remediation"),
                  Driver("Strategic", "B2B Service Loyalty")>>]

\* product_rules = {} (line 314)
NoRules == [key |-> <<>>, drivers |-> <<>>]

\* SELECTOR_LOGIC[key], with the key it stands under
Template(key) == [key |-> key, drivers |-> SELECTOR_LOGIC[key]]

\* lines 315-318 without the break: the last matching key stays
RECURSIVE SelectFrom_Mutant(_, _, _)
SelectFrom_Mutant(name, i, rules) ==
    IF i > Len(SelectorKeys) THEN rules
    ELSE SelectFrom_Mutant(name, i + 1,
             IF Contains(Lower(name), Lower(SelectorKeys[i]))
             THEN Template(SelectorKeys[i]) ELSE rules)

\* lines 315-318: the loop over the keys from the i-th on
RECURSIVE SelectFrom(_, _, _)
SelectFrom(name, i, rules) ==
    IF i > Len(SelectorKeys) THEN rules
    ELSE IF Contains(Lower(name), Lower(SelectorKeys[i])) THEN Template(SelectorKeys[i])
    ELSE SelectFrom(name, i + 1, rules)

\* lines 314-319: product_rules for the product name
RulesFor(name) ==
    LET found == SelectFrom(name, 1, NoRules)
    IN  IF found.drivers = <<>> THEN Template(HammerQA) ELSE found

\* line 312: what the preview returns as data
BetaPreview ==
    [impact |-> "BETA PREVIEW", bullets |-> <<"Beta">>, data |-> Analysis(<<>>)]

\* the product names of calls: the six names of the knowledge base, other
\* spellings, a name with two keys in it, and names with no key in it
ProductNames ==
    { HammerQA, HammerVoiceExplorer, HammerPerformance, HammerVoiceWatch, HammerEdge,
      AtivaEnterprise,
      <<"h", "a", "m", "m", "e", "r", " ", "q", "a">>,
      <<"H", "A", "M", "M", "E", "R", " ", "E", "D", "G", "E">>,
      HammerEdge \o <<" ", "+", " ">> \o HammerQA,
      <<"H", "a", "m", "m", "e", "r", " ", "A", "t", "i", "v", "a">>,
      <<"H", "a", "m", "m", "e", "r">>,
      <<"x", "y", "z">>,
      <<"A", "t", "i", "v", "a">>,
      <<"a", "t", "i", "v", "a", " ", "e", "n", "t", "e", "r", "p", "r", "i", "s", "e">>,
      HammerVoiceWatch \o <<" ", "P", "r", "o">>,
      <<>> }

\* what run_gemini_agent returns to the triage step: None, an object, or an
\* array of len items
TriageAnswers ==
    { [kind |-> "none", len |-> 0], [kind |-> "object", len |-> 1],
      [kind |-> "array", len |-> 0], [kind |-> "array", len |-> 1] }

\* what run_gemini_agent returns to the CFO step
CfoAnswers ==
    { [none |-> TRUE, data |-> EmptyDict],
      [none |-> FALSE, data |-> EmptyDict],
      [none |-> FALSE, data |-> Analysis(<<Component(PyInt(24000))>>)] }

productRest == <<extVars, chartVars, benchVars, reqVars, lockVars, mainVars>>

InitProduct ==
    /\ psp_pc = "call"
    /\ product \in ProductNames
    /\ beta_mode \in BOOLEAN
    /\ product_rules = NoRules
    /\ psp_result = <<>>
    /\ ResearchIdle
    /\ ExtractIdle
    /\ ChartIdle
    /\ BenchIdle
    /\ RequestIdle
    /\ LockIdle
    /\ MainIdle

\* lines 311-319 with the short-circuit left out
ProductCall_Mutant ==
    /\ psp_pc = "call"
    /\ product_rules' = RulesFor(product)
    /\ psp_pc' = "triage"
    /\ UNCHANGED <<psp_result, product, beta_mode, researchVars, productRest>>

\* lines 311-319: the preview returns at once; otherwise the template is chosen
ProductCall ==
    /\ psp_pc = "call"
    /\ IF beta_mode
       THEN /\ psp_result' = [raised |-> FALSE, prod |-> product, impact |-> BetaPreview.impact,
                              bullets |-> BetaPreview.bullets, data |-> BetaPreview.data]
            /\ psp_pc' = "returned"
            /\ UNCHANGED product_rules
       ELSE /\ product_rules' = RulesFor(product)
            /\ psp_pc' = "triage"
            /\ UNCHANGED psp_result
    /\ UNCHANGED <<product, beta_mode, researchVars, productRest>>

\* lines 324-331: the triage call; .get on a non-empty array raises
ProductTriage ==
    /\ psp_pc = "triage"
    /\ external_calls' = Append(external_calls, "generate_content")
    /\ \E a \in TriageAnswers :
          IF a.kind = "array" /\ a.len > 0
          THEN /\ psp_result' = [raised |-> TRUE, prod |-> product, impact |-> "",
                                 bullets |-> <<>>, data |-> EmptyDict]
               /\ psp_pc' = "returned"
          ELSE /\ psp_pc' = "cfo"
               /\ UNCHANGED psp_result
    /\ UNCHANGED <<product, beta_mode, product_rules, research_pc, code_presented,
                   tavily_key, context, research_http, productRest>>

\* lines 333-359: the CFO call and the return
ProductCfo ==
    /\ psp_pc = "cfo"
    /\ external_calls' = Append(external_calls, "generate_content")
    /\ \E r \in CfoAnswers :
          psp_result' = [raised |-> FALSE, prod |-> product, impact |-> "",
                         bullets |-> <<>>, data |-> process_single_product(product, r)]
    /\ psp_pc' = "returned"
    /\ UNCHANGED <<product, beta_mode, product_rules, research_pc, code_presented,
                   tavily_key, context, research_http, productRest>>

NextProduct == ProductCall \/ ProductTriage \/ ProductCfo

SpecProduct == InitProduct /\ [][NextProduct]_vars

\* C26: in preview mode process_single_product returns, for its product, a
\* result labelled as a preview with no value driver (hence savings of 0 and
\* the investment of a zero cost), and it makes no call to the generator or
\* any other collaborator before returning.
C26_PreviewShortCircuit ==
    beta_mode =>
        /\ external_calls = <<>>
        /\ psp_pc \in {"call", "returned"}
        /\ psp_pc = "returned" =>
              /\ ~psp_result.raised
              /\ psp_result.prod = product
              /\ psp_result.impact = "BETA PREVIEW"
              /\ psp_result.data.has_rc /\ psp_result.data.roi_components = <<>>
              /\ LET f == ProductFinancials(psp_result.data, [cost |-> RInt(0), term |-> RInt(12)])
                 IN  ~f.raised /\ f.savings = RInt(0) /\ f.investment = RInt(0)

\* a preview call for Hammer Edge has returned
C26_Witness ==
    /\ beta_mode /\ psp_pc = "returned" /\ product = HammerEdge
    /\ psp_result.impact = "BETA PREVIEW"

\* the positions in the table of the keys whose lower-cased name occurs in the
\* lower-cased product name
SelectorMatches ==
    {i \in 1..Len(SelectorKeys) :
        \E j \in 1..Len(product) : \E k \in j..Len(product) :
            Lower(SubSeq(product, j, k)) = Lower(SelectorKeys[i])}

\* the template has been chosen
RulesChosen == psp_pc \in {"triage", "cfo"} \/ (psp_pc = "returned" /\ ~beta_mode)

\* C29: the template used is that of the first SELECTOR_LOGIC key, in table
\* order, whose lower-cased name occurs in the lower-cased product name, and
\* that of Hammer QA when there is none; each of the six known product names
\* gets its own template, of exactly the three drivers Efficiency, Risk and
\* Strategic.
C29_FirstKeyWins ==
    RulesChosen =>
        /\ SelectorMatches = {} => product_rules.key = HammerQA
        /\ \A i \in SelectorMatches :
              (\A j \in SelectorMatches : i <= j) => product_rules.key = SelectorKeys[i]
        /\ product \in {HammerVoiceExplorer, HammerPerformance, HammerQA, AtivaEnterprise,
                        HammerVoiceWatch, HammerEdge}
              => product_rules.key = product
        /\ product_rules.drivers = SELECTOR_LOGIC[product_rules.key]
        /\ [i \in 1..Len(product_rules.drivers) |-> product_rules.drivers[i].name]
              = <<"Efficiency", "Risk", "Strategic">>

\* the name with Hammer Edge before Hammer QA has got the template of Hammer
\* QA, the first of the two in the table
C29_Witness ==
    /\ RulesChosen
    /\ product = HammerEdge \o <<" ", "+", " ">> \o HammerQA
    /\ SelectorMatches = {1, 5}
    /\ product_rules.key = HammerQA
    /\ product_rules.drivers[1].label = "Regression Automation"

(***************************************************************************)
(* A request for more products than the pool has threads (lines 416-427).  *)
(***************************************************************************)
\* longest product list of these requests
MaxPoolProds == 5

\* the product lists: the two products in turn, from four entries on
PoolLists ==
    {[i \in 1..n |-> IF i % 2 = 1 THEN "Hammer QA" ELSE "Hammer Edge"] : n \in 4..MaxPoolProds}

PoolResponses == {[none |-> FALSE, data |-> Analysis(<<Component(PyInt(24000))>>)]}

PoolForms == {[cost |-> Field(<<"1", "0", "0", "0">>), term |-> Absent, term_custom |-> Absent]}

InitPool ==
    /\ ExtractIdle
    /\ ChartIdle
    /\ BenchIdle
    /\ MoreIdle
    /\ generator = PoolResponses
    /\ client_forms = PoolForms
    /\ bench_forms = BenchForms
    /\ custom_profile = <<>>
    /\ pc = "start"
    /\ access_ok \in BOOLEAN
    /\ prods \in PoolLists
    /\ form = <<>>
    /\ futures = <<>>
    /\ results = <<>>
    /\ costs = <<>>
    /\ roi_data = <<>>
    /\ tot_inv = RInt(0)
    /\ tot_save = RInt(0)
    /\ roi_pct = [kind |-> "unset", v |-> RInt(0)]
    /\ roi_card = <<>>
    /\ http = 0
    /\ error = ""

SpecPool == InitPool /\ [][Next]_vars

\* the tasks whose process_single_product invocation is in flight
InFlight == {i \in 1..Len(futures) : futures[i].state = "running"}

\* the handler is past the pool
PastPool == pc \in {"aggregated", "summary"} \/ (pc = "done" /\ access_ok)

\* C27: at every moment of a request at most 3 invocations of
\* process_single_product are in flight, however many products are selected,
\* and the aggregation starts only after every worker has finished.
C27_BoundedPool ==
    /\ Cardinality(InFlight) <= 3
    /\ PastPool =>
          \A i \in 1..Len(futures) : futures[i].state \notin {"queued", "running"}
    /\ PastPool => Len(futures) = Len(prods)

\* three invocations are in flight while a fourth task waits
C27_Witness ==
    /\ Len(prods) >= 4
    /\ Cardinality(InFlight) = 3
    /\ \E i \in 1..Len(futures) : futures[i].state = "queued"

(***************************************************************************)
(* The threads of one gunicorn worker process ('gthread', threads = 4)     *)
(* calling create_payback_chart: "with plot_lock:" (lines 77-107).         *)
(***************************************************************************)
\* threads = 4 in gunicorn.conf.py
Threads == 1..4

\* the positions inside the with block: lines 78-79, 81-101, 103-107
InSection == {"figure", "plot", "save"}

InitLock ==
    /\ plot_lock = 0
    /\ thread_pc = [t \in Threads |-> "idle"]
    /\ chart_out = [t \in Threads |-> ""]
    /\ ResearchIdle
    /\ ProductIdle
    /\ ExtractIdle
    /\ ChartIdle
    /\ BenchIdle
    /\ RequestIdle
    /\ MainIdle

lockRest == <<researchVars, productVars, mainVars, extVars, chartVars, benchVars, reqVars>>

\* line 481: a request of thread t reaches the chart call
ChartRequested(t) ==
    /\ thread_pc[t] = "idle"
    /\ thread_pc' = [thread_pc EXCEPT ![t] = "waiting"]
    /\ UNCHANGED <<plot_lock, chart_out, lockRest>>

\* line 77: plot_lock.__enter__() returns once the lock is free
Acquire(t) ==
    /\ thread_pc[t] = "waiting"
    /\ plot_lock = 0
    /\ plot_lock' = t
    /\ thread_pc' = [thread_pc EXCEPT ![t] = "figure"]
    /\ UNCHANGED <<chart_out, lockRest>>

\* lines 78-101: the section goes on to its next part
PlotStep(t) ==
    /\ thread_pc[t] \in {"figure", "plot"}
    /\ thread_pc' = [thread_pc EXCEPT ![t] = IF @ = "figure" THEN "plot" ELSE "save"]
    /\ UNCHANGED <<plot_lock, chart_out, lockRest>>

\* an exception that leaves the lock held
PlotRaise_Mutant(t) ==
    /\ thread_pc[t] \in InSection
    /\ thread_pc' = [thread_pc EXCEPT ![t] = "idle"]
    /\ chart_out' = [chart_out EXCEPT ![t] = "raised"]
    /\ UNCHANGED <<plot_lock, lockRest>>

\* a statement of the section raises: plot_lock.__exit__() releases the lock
PlotRaise(t) ==
    /\ thread_pc[t] \in InSection
    /\ plot_lock' = 0
    /\ thread_pc' = [thread_pc EXCEPT ![t] = "idle"]
    /\ chart_out' = [chart_out EXCEPT ![t] = "raised"]
    /\ UNCHANGED lockRest

\* lines 103-107: the figure is saved and returned; __exit__() releases the lock
PlotReturn(t) ==
    /\ thread_pc[t] = "save"
    /\ plot_lock' = 0
    /\ thread_pc' = [thread_pc EXCEPT ![t] = "idle"]
    /\ chart_out' = [chart_out EXCEPT ![t] = "png"]
    /\ UNCHANGED lockRest

\* a step of thread t inside the section
SectionStep(t) == PlotStep(t) \/ PlotRaise(t) \/ PlotReturn(t)

NextLock ==
    \/ \E t \in Threads : ChartRequested(t)
    \/ \E t \in Threads : Acquire(t)
    \/ \E t \in Threads : PlotStep(t)
    \/ \E t \in Threads : PlotRaise(t)
    \/ \E t \in Threads : PlotReturn(t)

\* a thread that is inside the section keeps running
SpecLock == InitLock /\ [][NextLock]_vars /\ \A t \in Threads : WF_vars(SectionStep(t))

\* the threads inside the plotting section
Plotting == {t \in Threads : thread_pc[t] \in {"figure", "plot", "save"}}

\* at most one thread is inside the section
OneInSection == Cardinality(Plotting) <= 1

\* the lock is held exactly while its holder is inside the section
HeldWhileInside ==
    /\ plot_lock = 0 <=> Plotting = {}
    /\ plot_lock # 0 => Plotting = {plot_lock}

\* C28: among the request threads of one process at most one is inside the
\* plotting section of create_payback_chart at any time; the lock is released
\* whenever the section is left, also when plotting raises; so for a waiting
\* request the lock eventually is free (or the request is plotting).
C28_Serialized ==
    /\ []OneInSection
    /\ []HeldWhileInside
    /\ \A t \in Threads :
          (thread_pc[t] = "waiting") ~> (plot_lock = 0 \/ thread_pc[t] \in {"figure", "plot", "save"})

\* a thread waits while another is inside the section, and a third has left
\* the section by an exception
C28_Witness ==
    \E t, u, w \in Threads :
        /\ thread_pc[t] = "waiting"
        /\ plot_lock = u /\ u # t /\ thread_pc[u] = "plot"
        /\ chart_out[w] = "raised" /\ thread_pc[w] = "idle"

----------------------------------------------------------------------------
\* The standalone script src/src/main.py: calculate_hammer_math (lines
\* 43-103) and synthesize_report (lines 106-168).  hammer_playbook.json is
\* read at run time (lines 259-264) and is not part of the repository, so its
\* metrics are inputs.  A Python dict with string keys is a function on its
\* keys; the breakdown, whose order decides the order of the sum, is a list
\* of <<key, value>> entries in insertion order.  Numbers are exact rationals.

\* d.get(k, default)
Get(d, k, default) == IF k \in DOMAIN d THEN d[k] ELSE default

\* {**a, **b}: the keys of both, b's value where both have the key (line 168)
MergeDicts(a, b) ==
    [k \in DOMAIN a \cup DOMAIN b |-> IF k \in DOMAIN b THEN b[k] ELSE a[k]]

\* two contents of hammer_playbook.json with the keys lines 45-99 read
Playbooks ==
    { [defaults |-> [tickets_per_agent_monthly |-> RInt(2)],
       product_metrics |->
         [hammer_edge |-> [endpoint_issue_rate |-> Rat(3, 20), tier1_ticket_cost |-> RInt(25)],
          hammer_ativa |-> [avg_war_room_staff |-> RInt(8), sre_hourly_rate |-> RInt(95),
                            mtti_reduction_hours |-> Rat(3, 2), sla_credit_recovery_annual |-> RInt(50000)],
          hammer_voicewatch |-> [tfn_count_estimate |-> RInt(50), manual_test_time_mins_per_tfn |-> RInt(5)],
          hammer_qa |-> [manual_test_cost_per_hour |-> RInt(45), hours_per_regression_cycle |-> RInt(120),
                         cycles_per_year |-> RInt(12)],
          hammer_performance |-> [avg_rollback_cost |-> RInt(250000)]]],
      [defaults |-> [tickets_per_agent_monthly |-> Rat(1, 2)],
       product_metrics |->
         [hammer_edge |-> [endpoint_issue_rate |-> Rat(1, 10), tier1_ticket_cost |-> Rat(35, 2)],
          hammer_ativa |-> [avg_war_room_staff |-> RInt(5), sre_hourly_rate |-> RInt(80),
                            mtti_reduction_hours |-> RInt(2), sla_credit_recovery_annual |-> RInt(0)],
          hammer_voicewatch |-> [tfn_count_estimate |-> RInt(7), manual_test_time_mins_per_tfn |-> RInt(10)],
          hammer_qa |-> [manual_test_cost_per_hour |-> RInt(60), hours_per_regression_cycle |-> RInt(40),
                         cycles_per_year |-> RInt(4)],
          hammer_performance |-> [avg_rollback_cost |-> RInt(100000)]]] }

\* lines 56-83: the three entries of the operations branch
OperationsEntries(agent_count, pb) ==
    LET metrics == pb.product_metrics
        total_tickets == RMul(agent_count, pb.defaults.tickets_per_agent_monthly)
        endpoint_tickets == RMul(total_tickets, metrics.hammer_edge.endpoint_issue_rate)
        edge_savings == RMul(RMul(endpoint_tickets, metrics.hammer_edge.tier1_ticket_cost), RInt(12))
        war_room_savings ==
            RMul(RInt(12), RMul(RMul(metrics.hammer_ativa.avg_war_room_staff,
                                     metrics.hammer_ativa.sre_hourly_rate),
                                metrics.hammer_ativa.mtti_reduction_hours))
        ativa_total == RAdd(war_room_savings, metrics.hammer_ativa.sla_credit_recovery_annual)
        tfn_labor_hours ==
            RDiv(RMul(RMul(metrics.hammer_voicewatch.tfn_count_estimate,
                           metrics.hammer_voicewatch.manual_test_time_mins_per_tfn), RInt(52)),
                 RInt(60))
        vw_savings == RMul(tfn_labor_hours, metrics.hammer_qa.manual_test_cost_per_hour)
    IN  << [k |-> "Hammer Edge", v |-> [value |-> edge_savings]],
           [k |-> "Hammer Ativa", v |-> [value |-> ativa_total]],
           [k |-> "Hammer VoiceWatch", v |-> [value |-> vw_savings]] >>

\* lines 86-99: the two entries of the migration branch
MigrationEntries(pb) ==
    LET metrics == pb.product_metrics
        perf_savings == metrics.hammer_performance.avg_rollback_cost
        manual_cost ==
            RMul(RMul(metrics.hammer_qa.hours_per_regression_cycle,
                      metrics.hammer_qa.manual_test_cost_per_hour),
                 metrics.hammer_qa.cycles_per_year)
    IN  << [k |-> "Hammer Performance", v |-> [value |-> perf_savings]],
           [k |-> "Hammer QA", v |-> [value |-> manual_cost]] >>

\* sum(item['value'] for item in breakdown.values()), line 102
RECURSIVE SumValues(_)
SumValues(b) ==
    IF b = <<>> THEN RInt(0) ELSE RAdd(SumValues(SubSeq(b, 1, Len(b) - 1)), b[Len(b)].v.value)

\* lines 43-103
calculate_hammer_math(agent_count, scenario_type, pb) ==
    LET ops == IF scenario_type = "operations" \/ scenario_type = "hybrid"
               THEN OperationsEntries(agent_count, pb) ELSE <<>>
        mig == IF scenario_type = "migration" \/ scenario_type = "hybrid"
               THEN MigrationEntries(pb) ELSE <<>>
        breakdown == ops \o mig
    IN  [total_annual_savings |-> SumValues(breakdown), breakdown |-> breakdown]

\* lines 153-158: the data used when the AI step raised
FallbackAiData ==
    [detected_scenario |-> "operations",
     estimated_agent_count |-> RInt(750),
     executive_summary |-> "fallback",
     tech_stack_notes |-> "assumed"]

\* scenarios and agent counts an AI answer can name
AiScenarios == {"operations", "migration", "hybrid", "Operations", "unknown"}
AiAgentCounts == {RInt(0), RInt(1), RInt(120), RInt(750), Rat(5001, 2)}

\* a breakdown and a total an AI answer can carry under the names the
\* calculation uses
AiBreakdown == << [k |-> "AI Product", v |-> [value |-> RInt(1)]] >>
AiTotal == RInt(-1)

\* the JSON objects the AI step can parse (line 147): each of the two
\* fields the calculation reads present or not, with or without fields named
\* like the computed ones.  Answers that are no JSON object, or whose agent
\* count is no number, make lines 162-168 raise and are left out.
AiAnswers ==
    LET base == [executive_summary |-> "summary"]
        WithScenario == {base} \cup {MergeDicts(base, [detected_scenario |-> sc]) : sc \in AiScenarios}
        WithCount == WithScenario \cup
            {MergeDicts(d, [estimated_agent_count |-> n]) : d \in WithScenario, n \in AiAgentCounts}
    IN  WithCount \cup
        {MergeDicts(d, [total_annual_savings |-> AiTotal, breakdown |-> AiBreakdown]) : d \in WithCount}

mainRest == <<extVars, chartVars, benchVars, reqVars, researchVars, productVars, lockVars>>

InitMain ==
    /\ main_pc = "ai"
    /\ playbook \in Playbooks
    /\ ai_failed = FALSE
    /\ ai_data = <<>>
    /\ math_results = <<>>
    /\ final_data = <<>>
    /\ ExtractIdle
    /\ ChartIdle
    /\ BenchIdle
    /\ RequestIdle
    /\ ResearchIdle
    /\ ProductIdle
    /\ LockIdle

\* lines 109-148: the chain answered and json.loads parsed an object
AiParsed ==
    /\ main_pc = "ai"
    /\ ai_data' \in AiAnswers
    /\ ai_failed' = FALSE
    /\ main_pc' = "math"
    /\ UNCHANGED <<mainRest, playbook, math_results, final_data>>

\* lines 150-159: anything raised inside the try
AiRaised ==
    /\ main_pc = "ai"
    /\ ai_data' = FallbackAiData
    /\ ai_failed' = TRUE
    /\ main_pc' = "math"
    /\ UNCHANGED <<mainRest, playbook, math_results, final_data>>

\* lines 162-166
RunMath ==
    /\ main_pc = "math"
    /\ math_results' = calculate_hammer_math(Get(ai_data, "estimated_agent_count", RInt(750)),
                                             Get(ai_data, "detected_scenario", "operations"),
                                             playbook)
    /\ main_pc' = "merge"
    /\ UNCHANGED <<mainRest, playbook, ai_failed, ai_data, final_data>>

\* line 168
ReturnReport_Mutant ==
    /\ main_pc = "merge"
    /\ final_data' = MergeDicts(math_results, ai_data)
    /\ main_pc' = "returned"
    /\ UNCHANGED <<mainRest, playbook, ai_failed, ai_data, math_results>>

ReturnReport ==
    /\ main_pc = "merge"
    /\ final_data' = MergeDicts(ai_data, math_results)
    /\ main_pc' = "returned"
    /\ UNCHANGED <<mainRest, playbook, ai_failed, ai_data, math_results>>

NextMain == AiParsed \/ AiRaised \/ RunMath \/ ReturnReport

SpecMain == InitMain /\ [][NextMain]_vars

\* the product names of a breakdown, in order
BreakdownKeys(b) == [i \in 1..Len(b) |-> b[i].k]

\* the products a scenario selects
ScenarioProducts(sc) ==
    CASE sc = "operations" -> <<"Hammer Edge", "Hammer Ativa", "Hammer VoiceWatch">>
      [] sc = "migration" -> <<"Hammer Performance", "Hammer QA">>
      [] sc = "hybrid" -> <<"Hammer Edge", "Hammer Ativa", "Hammer VoiceWatch",
                            "Hammer Performance", "Hammer QA">>
      [] OTHER -> <<>>

\* the scenario the report was calculated for
ReportScenario == Get(ai_data, "detected_scenario", "operations")

\* the value of Hammer Edge for 750 agents, from the playbook's numbers
EdgeFor750 ==
    Rat(750 * playbook.defaults.tickets_per_agent_monthly.n
            * playbook.product_metrics.hammer_edge.endpoint_issue_rate.n
            * playbook.product_metrics.hammer_edge.tier1_ticket_cost.n * 12,
        playbook.defaults.tickets_per_agent_monthly.d
            * playbook.product_metrics.hammer_edge.endpoint_issue_rate.d
            * playbook.product_metrics.hammer_edge.tier1_ticket_cost.d)

\* C30: in the report synthesize_report returns, total_annual_savings is the
\* sum of the breakdown values; the breakdown holds exactly the products of
\* the scenario (operations: Edge, Ativa, VoiceWatch; migration: Performance,
\* QA; hybrid: all five; anything else: none, total 0); a total or breakdown
\* in the AI answer never replaces the computed one; and after a failed AI
\* step the report is the one of 'operations' with 750 agents.
C30_ReportFromMath ==
    main_pc = "returned" =>
        /\ final_data.total_annual_savings = SumValues(final_data.breakdown)
        /\ BreakdownKeys(final_data.breakdown) = ScenarioProducts(ReportScenario)
        /\ ReportScenario \notin {"operations", "migration", "hybrid"} =>
              /\ final_data.breakdown = <<>>
              /\ final_data.total_annual_savings = RInt(0)
        /\ "breakdown" \in DOMAIN ai_data =>
              /\ final_data.breakdown # ai_data.breakdown
              /\ final_data.total_annual_savings # ai_data.total_annual_savings
        /\ ai_failed =>
              /\ final_data.detected_scenario = "operations"
              /\ final_data.estimated_agent_count = RInt(750)
              /\ BreakdownKeys(final_data.breakdown) = ScenarioProducts("operations")
              /\ final_data.breakdown[1].v.value = EdgeFor750

\* a hybrid report whose AI answer carried a total and a breakdown of its own
C30_Witness ==
    /\ main_pc = "returned"
    /\ ~ai_failed
    /\ "breakdown" \in DOMAIN ai_data
    /\ "total_annual_savings" \in DOMAIN ai_data
    /\ ReportScenario = "hybrid"
    /\ Len(final_data.breakdown) = 5
====
